---- MODULE Spec2Model ----
(***************************************************************************)
(* A model of the RTLola front end: the Lola version analysis              *)
(* (src/src/analysis/lola_version.rs), the symbol table and the top-level  *)
(* walk of the parser (src/src/parse.rs).                                  *)
(***************************************************************************)
EXTENDS Integers, Sequences, FiniteSets, TLC

VARIABLES
    ast,                          \* the LolaSpec handed to analyse
    pc,                           \* position of analyse
    idx,                          \* index of the node the current loop is at
    result,                       \* LolaVersionAnalysis.result: NodeId -> LanguageSpec
    emitted_errors,               \* Handler's count of emitted errors
    number_of_previous_errors,    \* local of analyse
    errors_after_first_pass,      \* the count analyse read at line 164
    reason_against_classic_lola,  \* local of analyse
    reason_against_lola2,         \* local of analyse
    ret,                          \* what analyse returned
    names,                        \* SymbolTable.names
    strings,                      \* SymbolTable.strings
    last_call,                    \* the last SymbolTable call and what it returned
    first_symbol,                 \* history: the Symbol each text got when first interned
    content,                      \* the children of the Spec pair of the text given to parse
    pairs,                        \* those of them parse still has to visit
    parsed,                       \* the LolaSpec parse is building
    parse_pc,                     \* position of parse
    expr_pair,                    \* the Expr pair whose children build_expression_ast is given
    expr_ast                      \* what build_expression_ast made of it

analysis_vars == <<ast, pc, idx, result, emitted_errors, number_of_previous_errors,
                   errors_after_first_pass, reason_against_classic_lola, reason_against_lola2, ret>>
symbol_vars == <<names, strings, last_call, first_symbol>>
parse_vars == <<content, pairs, parsed, parse_pc>>
builder_vars == <<expr_pair, expr_ast>>
vars == <<analysis_vars, symbol_vars, parse_vars, builder_vars>>

----------------------------------------------------------------------------
(* Bounds of the model. *)
MaxNodes == 3
MaxParams == 1
MaxDepth == 2
MaxErrors == 1
MaxTexts == 4
MaxDecls == 3

----------------------------------------------------------------------------
(* Option<T> *)
None == [some |-> FALSE]
Some(v) == [some |-> TRUE, val |-> v]
is_none(o) == ~o.some

(* LanguageSpec, in the order of expressiveness *)
LanguageSpec == {"Classic", "Lola2", "RTLola"}

(* HashMap::insert and HashMap indexing *)
EmptyMap == [k \in {} |-> "Classic"]
insert(m, k, v) == [x \in (DOMAIN m) \cup {k} |-> IF x = k THEN v ELSE m[x]]
contains_key(m, k) == k \in DOMAIN m

SeqsUpTo(S, n) == UNION {[1..k -> S] : k \in 0..n}

----------------------------------------------------------------------------
(* Expressions: one record per ExpressionKind variant, each with its span. *)
Lit(sp) == [kind |-> "Lit", span |-> sp]
IdentExpr(sp) == [kind |-> "Ident", span |-> sp]
MissingExpression(sp) == [kind |-> "MissingExpression", span |-> sp]
Default(target, default, sp) ==
    [kind |-> "Default", target |-> target, default |-> default, span |-> sp]
DiscreteOffset(e) == [kind |-> "DiscreteOffset", expr |-> e]
RealTimeOffset(e, unit) == [kind |-> "RealTimeOffset", expr |-> e, unit |-> unit]
StreamInstance(arguments) == [stream_identifier |-> "stream", arguments |-> arguments]
Lookup(instance, offset, window, sp) ==
    [kind |-> "Lookup", instance |-> instance, offset |-> offset, window |-> window,
     span |-> sp]
Binary(op, left, right, sp) ==
    [kind |-> "Binary", op |-> op, left |-> left, right |-> right, span |-> sp]
Unary(op, nested, sp) == [kind |-> "Unary", op |-> op, nested |-> nested, span |-> sp]
Ite(condition, if_case, else_case, sp) ==
    [kind |-> "Ite", condition |-> condition, if_case |-> if_case,
     else_case |-> else_case, span |-> sp]
Parenthesis(sp) == [span |-> sp]
ParenthesizedExpression(opening, nested, closing, sp) ==
    [kind |-> "ParenthesizedExpression", opening |-> opening, nested |-> nested,
     closing |-> closing, span |-> sp]
Tuple(elems, sp) == [kind |-> "Tuple", elems |-> elems, span |-> sp]
Function(fkind, arguments, sp) ==
    [kind |-> "Function", fkind |-> fkind, arguments |-> arguments, span |-> sp]
Field(e, sp) == [kind |-> "Field", expr |-> e, field |-> "f", span |-> sp]
Method(e, args, sp) == [kind |-> "Method", expr |-> e, name |-> "m", args |-> args, span |-> sp]

----------------------------------------------------------------------------
(* WhyNot = (Span, String); a formatted message keeps its argument apart *)
WhyNot(sp, msg, arg) == [span |-> sp, msg |-> msg, arg |-> arg]

(* VersionTracker *)
VersionTracker_new == [cannot_be_classic |-> None, cannot_be_lola2 |-> None]
VersionTracker_from_stream(is_not_parameterized) ==
    [cannot_be_classic |-> is_not_parameterized, cannot_be_lola2 |-> None]

RECURSIVE analyse_expression(_, _, _)
RECURSIVE analyse_each(_, _)

(* the for_each over a vector of expressions: the walk of each, in order *)
analyse_each(version_tracker, exprs) ==
    IF exprs = <<>> THEN version_tracker
    ELSE analyse_each(analyse_expression(version_tracker, Head(exprs), FALSE), Tail(exprs))

(* the Lookup arm recording a real-time offset against Lola2 only *)
analyse_lookup_against_lola2_only(version_tracker, expr) ==
    IF expr.offset.kind = "DiscreteOffset"
    THEN analyse_expression(version_tracker, expr.offset.expr, FALSE)
    ELSE [analyse_expression(version_tracker, expr.offset.expr, FALSE)
            EXCEPT !.cannot_be_lola2 =
                       Some(WhyNot(expr.span, "Real time offset - no Lola2", <<>>))]

(* the Lookup arm: the stream instance is not looked at, the offset is *)
analyse_lookup(version_tracker, expr) ==
    IF expr.offset.kind = "DiscreteOffset"
    THEN analyse_expression(version_tracker, expr.offset.expr, FALSE)
    ELSE [analyse_expression(version_tracker, expr.offset.expr, FALSE)
            EXCEPT !.cannot_be_lola2 =
                       Some(WhyNot(expr.span, "Real time offset - no Lola2", <<>>)),
                   !.cannot_be_classic =
                       Some(WhyNot(expr.span, "Real time offset - no ClassicLola", <<>>))]

analyse_expression(version_tracker, expr, toplevel_in_trigger) ==
    CASE expr.kind = "Lit" -> version_tracker
      [] expr.kind = "Ident" -> version_tracker
      [] expr.kind = "Default" ->
            analyse_expression(
                analyse_expression(version_tracker, expr.target, FALSE),
                expr.default, FALSE)
      [] expr.kind = "Lookup" -> analyse_lookup(version_tracker, expr)
      [] expr.kind = "Binary" ->
            analyse_expression(
                analyse_expression(version_tracker, expr.left, FALSE),
                expr.right, FALSE)
      [] expr.kind = "Unary" -> analyse_expression(version_tracker, expr.nested, FALSE)
      [] expr.kind = "Ite" ->
            analyse_expression(
                analyse_expression(
                    analyse_expression(version_tracker, expr.condition, FALSE),
                    expr.if_case, FALSE),
                expr.else_case, FALSE)
      [] expr.kind = "ParenthesizedExpression" ->
            analyse_expression(version_tracker, expr.nested, FALSE)
      [] expr.kind = "MissingExpression" -> version_tracker
      [] expr.kind = "Tuple" -> analyse_each(version_tracker, expr.elems)
      [] expr.kind = "Function" -> analyse_each(version_tracker, expr.arguments)
      [] expr.kind = "Field" -> analyse_expression(version_tracker, expr.expr, FALSE)
      [] expr.kind = "Method" ->
            analyse_each(analyse_expression(version_tracker, expr.expr, FALSE), expr.args)

----------------------------------------------------------------------------
(* LolaVersionAnalysis: the first pass, one node at a time *)
(* analyse_input without the test of the parameter list *)
analyse_input_always_classic(res, input) == insert(res, input.id, "Classic")

(* analyse_input taking a parameterized input for a real-time stream *)
analyse_input_parameterized_rtlola(res, input) ==
    IF input.params = <<>>
    THEN insert(res, input.id, "Classic")
    ELSE insert(res, input.id, "RTLola")

analyse_input(res, input) ==
    IF input.params = <<>>
    THEN insert(res, input.id, "Classic")
    ELSE insert(res, input.id, "Lola2")

(* the three-way decision at the end of analyse_output and analyse_trigger *)
minimal_version(version_tracker) ==
    IF is_none(version_tracker.cannot_be_classic) THEN "Classic"
    ELSE IF is_none(version_tracker.cannot_be_lola2) THEN "Lola2"
    ELSE "RTLola"

(* analyse_output starting from VersionTracker::new *)
analyse_output_ignoring_params(res, output) ==
    insert(res, output.id,
           minimal_version(analyse_expression(VersionTracker_new, output.expression, FALSE)))

(* analyse_output with a tracker that outlives the node: a real-time entry *)
(* already in the map makes this output real-time too                      *)
analyse_output_sharing_tracker(res, output) ==
    LET is_not_parameterized ==
            IF output.params = <<>> THEN None
            ELSE Some(WhyNot(output.name.span, "Parameterized stream", <<>>))
        version_tracker ==
            analyse_expression(VersionTracker_from_stream(is_not_parameterized),
                               output.expression, FALSE)
    IN  insert(res, output.id,
               IF \E id \in DOMAIN res : res[id] = "RTLola" THEN "RTLola"
               ELSE minimal_version(version_tracker))

analyse_output(res, output) ==
    LET is_not_parameterized ==
            IF output.params = <<>> THEN None
            ELSE Some(WhyNot(output.name.span, "Parameterized stream", <<>>))
        version_tracker ==
            analyse_expression(VersionTracker_from_stream(is_not_parameterized),
                               output.expression, FALSE)
    IN  insert(res, output.id, minimal_version(version_tracker))

(* analyse_trigger without the insert *)
analyse_trigger_no_insert(res, trigger) == res

analyse_trigger(res, trigger) ==
    LET version_tracker == analyse_expression(VersionTracker_new, trigger.expression, TRUE)
    IN  insert(res, trigger.id, minimal_version(version_tracker))

(* the comparison against no errors at all instead of the earlier count *)
errors_compared_with_zero(previous, now) == now # 0

(* the comparison with the test for equality *)
errors_compared_for_equality(previous, now) == previous = now

(* line 164: did the count of emitted errors change during the first pass *)
errors_were_emitted(previous, now) == previous # now

----------------------------------------------------------------------------
(* LolaVersionAnalysis: the second pass, one node at a time.  Each operator  *)
(* is the body of one loop; it yields the two reasons after the node.        *)
rule_out_versions_based_on_inputs(res, input, rc) ==
    IF res[input.id] = "Lola2" /\ is_none(rc)
    THEN Some(WhyNot(input.name.span, "Parameterized input stream", <<>>))
    ELSE rc

(* the loop body without the reason against Lola2 of the RTLola arm *)
rule_out_outputs_rtlola_spares_lola2(res, output, rc, r2) ==
    LET span == output.name.span
    IN  CASE res[output.id] = "Classic" -> <<rc, r2>>
          [] res[output.id] = "Lola2" ->
                <<IF is_none(rc)
                  THEN Some(WhyNot(span,
                           "Classic Lola is not possible due to {} being a Lola2 stream.",
                           <<output.name.name>>))
                  ELSE rc,
                  r2>>
          [] res[output.id] = "RTLola" ->
                <<IF is_none(rc)
                  THEN Some(WhyNot(span,
                           "Classic Lola is not possible due to {} being a RTLola stream.",
                           <<output.name.name>>))
                  ELSE rc,
                  r2>>

rule_out_versions_based_on_outputs(res, output, rc, r2) ==
    LET span == output.name.span
    IN  CASE res[output.id] = "Classic" -> <<rc, r2>>
          [] res[output.id] = "Lola2" ->
                <<IF is_none(rc)
                  THEN Some(WhyNot(span,
                           "Classic Lola is not possible due to {} being a Lola2 stream.",
                           <<output.name.name>>))
                  ELSE rc,
                  r2>>
          [] res[output.id] = "RTLola" ->
                <<IF is_none(rc)
                  THEN Some(WhyNot(span,
                           "Classic Lola is not possible due to {} being a RTLola stream.",
                           <<output.name.name>>))
                  ELSE rc,
                  IF is_none(r2)
                  THEN Some(WhyNot(span,
                           "Lola2 is not possible due to {} being a RTLola stream.",
                           <<output.name.name>>))
                  ELSE r2>>

(* the loop body without the tests for an earlier reason *)
rule_out_triggers_last_reason_wins(res, trigger, rc, r2) ==
    LET span == IF is_none(trigger.name) THEN trigger.span ELSE trigger.name.val.span
    IN  CASE res[trigger.id] = "Classic" -> <<rc, r2>>
          [] res[trigger.id] = "Lola2" ->
                <<Some(WhyNot(span,
                       "Classic Lola is not possible due to this being a Lola2 trigger.",
                       <<>>)),
                  r2>>
          [] res[trigger.id] = "RTLola" ->
                <<Some(WhyNot(span,
                       "Classic Lola is not possible due to this being a RTLola trigger.",
                       <<>>)),
                  Some(WhyNot(span,
                       "Lola2 is not possible due to this being a RTLola trigger.",
                       <<>>))>>

rule_out_versions_based_on_triggers(res, trigger, rc, r2) ==
    LET span == IF is_none(trigger.name) THEN trigger.span ELSE trigger.name.val.span
    IN  CASE res[trigger.id] = "Classic" -> <<rc, r2>>
          [] res[trigger.id] = "Lola2" ->
                <<IF is_none(rc)
                  THEN Some(WhyNot(span,
                           "Classic Lola is not possible due to this being a Lola2 trigger.",
                           <<>>))
                  ELSE rc,
                  r2>>
          [] res[trigger.id] = "RTLola" ->
                <<IF is_none(rc)
                  THEN Some(WhyNot(span,
                           "Classic Lola is not possible due to this being a RTLola trigger.",
                           <<>>))
                  ELSE rc,
                  IF is_none(r2)
                  THEN Some(WhyNot(span,
                           "Lola2 is not possible due to this being a RTLola trigger.",
                           <<>>))
                  ELSE r2>>

(* lines 187-193 *)
minimal_lola_version(rc, r2) ==
    IF is_none(rc) THEN Some("Classic")
    ELSE IF is_none(r2) THEN Some("Lola2")
    ELSE Some("RTLola")

----------------------------------------------------------------------------
(* The expressions the analysed specifications draw from: Wraps(e) puts e   *)
(* at each child position of each ExpressionKind variant, beside literals.  *)
lit == Lit(<<0, 1>>)
Leaves == {lit, IdentExpr(<<0, 1>>), MissingExpression(<<0, 1>>)}
discrete_lookup == Lookup(StreamInstance(<<>>), DiscreteOffset(lit), None, <<0, 1>>)

Wraps(e) ==
    LET sp == <<0, e.span[2] + 1>>
    IN  { Binary("Add", e, lit, sp), Binary("Or", lit, e, sp),
          Unary("Neg", e, sp),
          Ite(e, lit, lit, sp), Ite(lit, e, lit, sp), Ite(lit, lit, e, sp),
          ParenthesizedExpression(None, e, None, sp),
          Tuple(<<e, lit>>, sp), Tuple(<<lit, e>>, sp),
          Function("Sqrt", <<e>>, sp), Function("NthRoot", <<lit, e>>, sp),
          Field(e, sp),
          Method(e, <<>>, sp), Method(lit, <<e>>, sp),
          Default(discrete_lookup, e, sp),
          Lookup(StreamInstance(<<>>), DiscreteOffset(e), None, sp),
          Lookup(StreamInstance(<<>>), RealTimeOffset(e, "Second"), None, sp),
          Lookup(StreamInstance(<<>>), RealTimeOffset(e, "Second"), Some("Sum"), sp),
          Lookup(StreamInstance(<<e>>), DiscreteOffset(lit), None, sp),
          Lookup(StreamInstance(<<lit, e>>), RealTimeOffset(lit, "Hour"), None, sp) }
        \cup (IF e.kind = "Lookup" THEN {Default(e, lit, sp)} ELSE {})

RECURSIVE ExprsOfDepth(_)
ExprsOfDepth(d) ==
    IF d = 0 THEN {lit} ELSE UNION {Wraps(e) : e \in ExprsOfDepth(d - 1)}

ExprsUpTo(d) == Leaves \cup UNION {ExprsOfDepth(k) : k \in 0..d}

(* a literal and a stream[3s] *)
real_time_lookup == Lookup(StreamInstance(<<>>), RealTimeOffset(lit, "Second"), None, <<0, 2>>)
SomeExprs == {lit, real_time_lookup}

----------------------------------------------------------------------------
(* The AST nodes.  id_assignment gives the nodes pairwise distinct NodeIds; *)
(* the k-th node of the specification gets k.                                *)
NodeSpan(id) == <<10 * id, 10 * id + 9>>
NameSpan(id) == <<10 * id + 1, 10 * id + 2>>
IdentOf(kind, id) == [name |-> <<kind, id>>, span |-> NameSpan(id)]
ParamList(n) == [i \in 1..n |-> "param"]

Input(id, n) == [id |-> id, name |-> IdentOf("in", id), params |-> ParamList(n),
                 span |-> NodeSpan(id)]
Output(id, n, e) == [id |-> id, name |-> IdentOf("out", id), params |-> ParamList(n),
                     expression |-> e, span |-> NodeSpan(id)]
Trigger(id, named, e) ==
    [id |-> id, name |-> IF named THEN Some(IdentOf("trig", id)) ELSE None,
     expression |-> e, span |-> NodeSpan(id)]

(* ins: the parameter count of each input; outs: <<parameter count,         *)
(* expression>> of each output; trigs: <<named, expression>> of each trigger *)
LolaSpec(ins, outs, trigs) ==
    [inputs |-> [i \in 1..Len(ins) |-> Input(i, ins[i])],
     outputs |-> [i \in 1..Len(outs) |-> Output(Len(ins) + i, outs[i][1], outs[i][2])],
     trigger |-> [i \in 1..Len(trigs) |->
                     Trigger(Len(ins) + Len(outs) + i, trigs[i][1], trigs[i][2])]]

(* the specifications of at most n nodes *)
Specs(exprs, n) ==
    UNION { UNION { { LolaSpec(ins, outs, trigs) :
                        ins \in [1..nin -> 0..MaxParams],
                        outs \in [1..nout -> (0..MaxParams) \X exprs],
                        trigs \in SeqsUpTo(BOOLEAN \X exprs, n - nin - nout) }
                    : nout \in 0..(n - nin) }
            : nin \in 0..n }

(* a specification of one node *)
OneNodeSpecs(exprs) ==
    { LolaSpec(<<n>>, <<>>, <<>>) : n \in 0..MaxParams }
    \cup { LolaSpec(<<>>, <<o>>, <<>>) : o \in (0..MaxParams) \X exprs }
    \cup { LolaSpec(<<>>, <<>>, <<t>>) : t \in BOOLEAN \X exprs }

----------------------------------------------------------------------------
(* analyse, step by step.  pc is the statement analyse is at; the loops     *)
(* take one step per node and idx is the node they are at.                  *)
Loops == {"analyse_inputs", "analyse_outputs", "analyse_triggers",
          "rule_out_inputs", "rule_out_outputs", "rule_out_triggers"}

nodes_of(phase) ==
    CASE phase \in {"analyse_inputs", "rule_out_inputs"} -> ast.inputs
      [] phase \in {"analyse_outputs", "rule_out_outputs"} -> ast.outputs
      [] phase \in {"analyse_triggers", "rule_out_triggers"} -> ast.trigger

following(phase) ==
    CASE phase = "analyse_inputs" -> "analyse_outputs"
      [] phase = "analyse_outputs" -> "analyse_triggers"
      [] phase = "analyse_triggers" -> "check_errors"
      [] phase = "rule_out_inputs" -> "rule_out_outputs"
      [] phase = "rule_out_outputs" -> "rule_out_triggers"
      [] phase = "rule_out_triggers" -> "decide"

(* a for loop over an empty vector falls through to the next statement *)
RECURSIVE enter(_)
enter(phase) ==
    IF phase \in Loops /\ nodes_of(phase) = <<>> THEN enter(following(phase)) ELSE phase

(* the end of one iteration of the loop pc is in *)
LoopStep ==
    IF idx < Len(nodes_of(pc))
    THEN pc' = pc /\ idx' = idx + 1
    ELSE pc' = enter(following(pc)) /\ idx' = 1

node == nodes_of(pc)[idx]

(* line 152 *)
AnalyseStart ==
    /\ UNCHANGED <<symbol_vars, parse_vars, builder_vars>>
    /\ pc = "new"
    /\ number_of_previous_errors' = emitted_errors
    /\ pc' = enter("analyse_inputs")
    /\ UNCHANGED <<ast, idx, result, emitted_errors, errors_after_first_pass,
                   reason_against_classic_lola, reason_against_lola2, ret>>

(* lines 154-156 *)
AnalyseInput ==
    /\ UNCHANGED <<symbol_vars, parse_vars, builder_vars>>
    /\ pc = "analyse_inputs"
    /\ result' = analyse_input(result, node)
    /\ LoopStep
    /\ UNCHANGED <<ast, emitted_errors, number_of_previous_errors, errors_after_first_pass,
                   reason_against_classic_lola, reason_against_lola2, ret>>

(* lines 157-159 *)
AnalyseOutput ==
    /\ UNCHANGED <<symbol_vars, parse_vars, builder_vars>>
    /\ pc = "analyse_outputs"
    /\ result' = analyse_output(result, node)
    /\ LoopStep
    /\ UNCHANGED <<ast, emitted_errors, number_of_previous_errors, errors_after_first_pass,
                   reason_against_classic_lola, reason_against_lola2, ret>>

(* lines 160-162 *)
AnalyseTrigger ==
    /\ UNCHANGED <<symbol_vars, parse_vars, builder_vars>>
    /\ pc = "analyse_triggers"
    /\ result' = analyse_trigger(result, node)
    /\ LoopStep
    /\ UNCHANGED <<ast, emitted_errors, number_of_previous_errors, errors_after_first_pass,
                   reason_against_classic_lola, reason_against_lola2, ret>>

(* lines 164-171 *)
CheckErrors ==
    /\ UNCHANGED <<symbol_vars, parse_vars, builder_vars>>
    /\ pc = "check_errors"
    /\ errors_after_first_pass' = emitted_errors
    /\ IF errors_were_emitted(number_of_previous_errors, emitted_errors)
       THEN /\ ret' = None
            /\ pc' = "returned"
            /\ UNCHANGED <<reason_against_classic_lola, reason_against_lola2>>
       ELSE /\ reason_against_classic_lola' = None
            /\ reason_against_lola2' = None
            /\ pc' = enter("rule_out_inputs")
            /\ UNCHANGED ret
    /\ UNCHANGED <<ast, idx, result, emitted_errors, number_of_previous_errors>>

(* lines 287-298; indexing a missing key and unreachable!() both panic *)
RuleOutInput ==
    /\ UNCHANGED <<symbol_vars, parse_vars, builder_vars>>
    /\ pc = "rule_out_inputs"
    /\ IF contains_key(result, node.id) /\ result[node.id] \in {"Classic", "Lola2"}
       THEN /\ reason_against_classic_lola' =
                   rule_out_versions_based_on_inputs(result, node,
                                                     reason_against_classic_lola)
            /\ LoopStep
       ELSE /\ pc' = "panicked"
            /\ UNCHANGED <<idx, reason_against_classic_lola>>
    /\ UNCHANGED <<ast, result, emitted_errors, number_of_previous_errors,
                   errors_after_first_pass, reason_against_lola2, ret>>

(* lines 243-279 *)
RuleOutOutput ==
    /\ UNCHANGED <<symbol_vars, parse_vars, builder_vars>>
    /\ pc = "rule_out_outputs"
    /\ IF contains_key(result, node.id)
       THEN LET reasons == rule_out_versions_based_on_outputs(
                               result, node, reason_against_classic_lola,
                               reason_against_lola2)
            IN  /\ reason_against_classic_lola' = reasons[1]
                /\ reason_against_lola2' = reasons[2]
                /\ LoopStep
       ELSE /\ pc' = "panicked"
            /\ UNCHANGED <<idx, reason_against_classic_lola, reason_against_lola2>>
    /\ UNCHANGED <<ast, result, emitted_errors, number_of_previous_errors,
                   errors_after_first_pass, ret>>

(* lines 202-234 *)
RuleOutTrigger ==
    /\ UNCHANGED <<symbol_vars, parse_vars, builder_vars>>
    /\ pc = "rule_out_triggers"
    /\ IF contains_key(result, node.id)
       THEN LET reasons == rule_out_versions_based_on_triggers(
                               result, node, reason_against_classic_lola,
                               reason_against_lola2)
            IN  /\ reason_against_classic_lola' = reasons[1]
                /\ reason_against_lola2' = reasons[2]
                /\ LoopStep
       ELSE /\ pc' = "panicked"
            /\ UNCHANGED <<idx, reason_against_classic_lola, reason_against_lola2>>
    /\ UNCHANGED <<ast, result, emitted_errors, number_of_previous_errors,
                   errors_after_first_pass, ret>>

(* lines 186-193 *)
Decide ==
    /\ UNCHANGED <<symbol_vars, parse_vars, builder_vars>>
    /\ pc = "decide"
    /\ ret' = minimal_lola_version(reason_against_classic_lola, reason_against_lola2)
    /\ pc' = "returned"
    /\ UNCHANGED <<ast, idx, result, emitted_errors, number_of_previous_errors,
                   errors_after_first_pass, reason_against_classic_lola,
                   reason_against_lola2>>

(* Handler: another party emits an error through the diagnostics sink *)
EmitError ==
    /\ UNCHANGED <<symbol_vars, parse_vars, builder_vars>>
    /\ pc \notin {"returned", "panicked"}
    /\ emitted_errors < MaxErrors
    /\ emitted_errors' = emitted_errors + 1
    /\ UNCHANGED <<ast, pc, idx, result, number_of_previous_errors,
                   errors_after_first_pass, reason_against_classic_lola,
                   reason_against_lola2, ret>>

----------------------------------------------------------------------------
(* Symbol and SymbolTable.  A Symbol is a u32 and strings is indexed from 0. *)
(* `len as u32` is len itself for a table of fewer than 2^32 texts: every    *)
(* table here is, and 2^32 is beyond the integers of the model checker.      *)
Symbol(n) == n
to_usize(symbol) == symbol

SymbolTable_new == [names |-> EmptyMap, strings |-> <<>>]

(* get_symbol_for: the table after the call and the Symbol returned *)
(* get_symbol_for without the lookup of the text *)
get_symbol_for_always_appends(table, string) ==
    LET name == Symbol(Len(table.strings))
    IN  [table |-> [names |-> insert(table.names, string, name),
                    strings |-> Append(table.strings, string)],
         symbol |-> name]

(* get_symbol_for taking the length of strings after the push *)
get_symbol_for_len_after_push(table, string) ==
    IF contains_key(table.names, string)
    THEN [table |-> table, symbol |-> table.names[string]]
    ELSE LET pushed == Append(table.strings, string)
             name == Symbol(Len(pushed))
         IN  [table |-> [names |-> insert(table.names, string, name), strings |-> pushed],
              symbol |-> name]

(* get_symbol_for putting a new text in front of strings *)
get_symbol_for_prepending(table, string) ==
    IF contains_key(table.names, string)
    THEN [table |-> table, symbol |-> table.names[string]]
    ELSE LET name == Symbol(Len(table.strings))
         IN  [table |-> [names |-> insert(table.names, string, name),
                         strings |-> <<string>> \o table.strings],
              symbol |-> name]

get_symbol_for(table, string) ==
    IF contains_key(table.names, string)
    THEN [table |-> table, symbol |-> table.names[string]]
    ELSE LET name == Symbol(Len(table.strings))
         IN  [table |-> [names |-> insert(table.names, string, name),
                         strings |-> Append(table.strings, string)],
              symbol |-> name]

(* get_string: indexing past the end of strings panics *)
IndexOutOfBounds == "<index out of bounds>"
get_string(table, symbol) ==
    IF to_usize(symbol) < Len(table.strings)
    THEN table.strings[to_usize(symbol) + 1]
    ELSE IndexOutOfBounds

(* The texts the callers intern. *)
TextPool == <<"a", "b", "in", "out", "Int", "Bool">>
Texts == {TextPool[i] : i \in 1..MaxTexts}

symbols == [names |-> names, strings |-> strings]

GetSymbolFor(string) ==
    LET got == get_symbol_for(symbols, string)
    IN  /\ UNCHANGED <<analysis_vars, parse_vars, builder_vars>>
        /\ names' = got.table.names
        /\ strings' = got.table.strings
        /\ last_call' = [op |-> "get_symbol_for", string |-> string, symbol |-> got.symbol]
        /\ first_symbol' = IF contains_key(first_symbol, string) THEN first_symbol
                           ELSE insert(first_symbol, string, got.symbol)

GetString(symbol) ==
    /\ UNCHANGED <<analysis_vars, parse_vars, builder_vars>>
    /\ last_call' = [op |-> "get_string", string |-> get_string(symbols, symbol),
                     symbol |-> symbol]
    /\ UNCHANGED <<names, strings, first_symbol>>

----------------------------------------------------------------------------
(* The parser.  A Pair is [rule, str, span, inner]; a builder yields        *)
(* [ok, symbols, val]: whether it returned (or panicked), the symbol table   *)
(* of the specification after it, and what it built.                         *)
Pair(rule, str, sp, inner) == [rule |-> rule, str |-> str, span |-> sp, inner |-> inner]
Built(table, val) == [ok |-> TRUE, symbols |-> table, val |-> val]
Panicked(table) == [ok |-> FALSE, symbols |-> table, val |-> <<>>]

(* str::parse::<i128> and str::parse::<f64> on the number texts used *)
parse_i128(str) ==
    CASE str = "5" -> Some(5)
      [] str = "3" -> Some(3)
      [] OTHER -> None
parse_f64(str) ==
    CASE str = "5" -> Some("5.0")
      [] str = "3" -> Some("3.0")
      [] str = "5.0" -> Some("5.0")
      [] OTHER -> None

parse_ident(table, pair) ==
    IF pair.rule # "Ident" THEN Panicked(table)
    ELSE LET got == get_symbol_for(table, pair.str)
         IN  Built(got.table, [name |-> got.symbol, span |-> pair.span])

RECURSIVE parse_type(_, _)
RECURSIVE parse_type_children(_, _, _, _)
(* the for loop of parse_type: returns at the first Ident child *)
parse_type_children(table, children, tuple, span) ==
    IF children = <<>>
    THEN Built(table, [kind |-> "Tuple", elems |-> tuple, span |-> span])
    ELSE LET child == Head(children)
         IN  CASE child.rule = "Ident" ->
                    LET got == get_symbol_for(table, child.str)
                    IN  Built(got.table,
                              [kind |-> "Simple", name |-> got.symbol, span |-> child.span])
               [] child.rule = "Type" ->
                    LET ty == parse_type(table, child)
                    IN  IF ty.ok
                        THEN parse_type_children(ty.symbols, Tail(children),
                                                 Append(tuple, ty.val), span)
                        ELSE Panicked(ty.symbols)
               [] OTHER -> Panicked(table)

parse_type(table, pair) ==
    IF pair.rule # "Type" THEN Panicked(table)
    ELSE parse_type_children(table, pair.inner, <<>>, pair.span)

RECURSIVE parse_literal(_, _)
RECURSIVE parse_literals(_, _, _)
parse_literals(table, elements, literals) ==
    IF elements = <<>> THEN Built(table, literals)
    ELSE LET l == parse_literal(table, Head(elements))
         IN  IF l.ok THEN parse_literals(table, Tail(elements), Append(literals, l.val))
             ELSE Panicked(table)

parse_literal(table, pair) ==
    IF pair.rule # "Literal" \/ pair.inner = <<>> THEN Panicked(table)
    ELSE LET inner == pair.inner[1]
         IN  CASE inner.rule = "String" -> Panicked(table)
               [] inner.rule = "NumberLiteral" ->
                    IF parse_i128(inner.str).some
                    THEN Built(table, [kind |-> "Int", val |-> parse_i128(inner.str).val,
                                       span |-> inner.span])
                    ELSE IF parse_f64(inner.str).some
                    THEN Built(table, [kind |-> "Float", val |-> parse_f64(inner.str).val,
                                       span |-> inner.span])
                    ELSE Panicked(table)
               [] inner.rule = "TupleLiteral" ->
                    LET literals == parse_literals(table, inner.inner, <<>>)
                    IN  IF literals.ok
                        THEN Built(table, [kind |-> "Tuple", val |-> literals.val,
                                           span |-> inner.span])
                        ELSE Panicked(table)
               [] inner.rule = "True" ->
                    Built(table, [kind |-> "Bool", val |-> TRUE, span |-> inner.span])
               [] inner.rule = "False" ->
                    Built(table, [kind |-> "Bool", val |-> FALSE, span |-> inner.span])
               [] OTHER -> Panicked(table)

(* PREC_CLIMBER: the operators by precedence, lowest first; only Power is   *)
(* right-associative.                                                        *)
Operators ==
    << {"Or"}, {"And"}, {"Equal", "NotEqual"},
       {"LessThan", "LessThanOrEqual", "MoreThan", "MoreThanOrEqual"},
       {"Add", "Subtract"}, {"Multiply", "Divide", "Mod"}, {"Power"} >>
is_operator(rule) == \E i \in 1..Len(Operators) : rule \in Operators[i]
(* PREC_CLIMBER with And placed below Or *)
prec_and_below_or(rule) ==
    CASE rule = "And" -> 1
      [] rule = "Or" -> 2
      [] OTHER -> CHOOSE i \in 1..Len(Operators) : rule \in Operators[i]
prec(rule) == CHOOSE i \in 1..Len(Operators) : rule \in Operators[i]
(* assoc with Power declared Assoc::Left like every other operator *)
assoc_all_left(rule) == "Left"
assoc(rule) == IF rule = "Power" THEN "Right" ELSE "Left"

(* the reduce closure: every Binary node gets the span build_expression_ast *)
(* was called with                                                           *)
BinOp(rule) ==
    CASE rule = "Add" -> "Add"
      [] rule = "Subtract" -> "Sub"
      [] rule = "Multiply" -> "Mul"
      [] rule = "Divide" -> "Div"
      [] rule = "Mod" -> "Rem"
      [] rule = "Power" -> "Pow"
      [] rule = "And" -> "And"
      [] rule = "Or" -> "Or"
      [] rule = "LessThan" -> "Lt"
      [] rule = "LessThanOrEqual" -> "Le"
      [] rule = "MoreThan" -> "Gt"
      [] rule = "MoreThanOrEqual" -> "Ge"
      [] rule = "Equal" -> "Eq"
      [] rule = "NotEqual" -> "Ne"
      [] OTHER -> "unreachable"
infix(lhs, op, rhs, span) == Binary(BinOp(op.rule), lhs, rhs, span)

(* the match with unary plus kept as a node of its own *)
unary_expression_keeping_plus(pest_operator, operand, span) ==
    CASE pest_operator.rule = "Add" ->
            Built(operand.symbols, Unary("Pos", operand.val, span))
      [] pest_operator.rule = "Subtract" ->
            Built(operand.symbols, Unary("Neg", operand.val, span))
      [] pest_operator.rule = "Neg" ->
            Built(operand.symbols, Unary("Not", operand.val, span))
      [] OTHER -> Panicked(operand.symbols)
(* the match on the operator of a unary expression: unary plus is discarded *)
unary_expression(pest_operator, operand, span) ==
    CASE pest_operator.rule = "Add" -> operand
      [] pest_operator.rule = "Subtract" ->
            Built(operand.symbols, Unary("Neg", operand.val, span))
      [] pest_operator.rule = "Neg" ->
            Built(operand.symbols, Unary("Not", operand.val, span))
      [] OTHER -> Panicked(operand.symbols)

(* the Tuple arm without its assertion *)
tuple_expression_unasserted(elements, span) ==
    Built(elements.symbols, Tuple(elements.val, span))
(* the Tuple arm after its elements are built *)
tuple_expression(elements, span) ==
    IF Len(elements.val) = 1 THEN Panicked(elements.symbols)
    ELSE Built(elements.symbols, Tuple(elements.val, span))

TimeUnit(unit_string) ==
    CASE unit_string = "ns" -> Some("NanoSecond")
      [] unit_string = "μs" -> Some("MicroSecond")
      [] unit_string = "ms" -> Some("MilliSecond")
      [] unit_string = "s" -> Some("Second")
      [] unit_string = "min" -> Some("Minute")
      [] unit_string = "h" -> Some("Hour")
      [] unit_string = "d" -> Some("Day")
      [] unit_string = "w" -> Some("Week")
      [] unit_string = "a" -> Some("Year")
      [] OTHER -> None
WindowOperations == {"Sum", "Product", "Average", "Count", "Integral"}
FunctionKind(name) ==
    CASE name = "nroot" -> Some("NthRoot")
      [] name = "sqrt" -> Some("Sqrt")
      [] name = "π" -> Some("Projection")
      [] name = "sin" -> Some("Sin")
      [] name = "cos" -> Some("Cos")
      [] name = "tan" -> Some("Tan")
      [] name = "arcsin" -> Some("Arcsin")
      [] name = "arccos" -> Some("Arccos")
      [] name = "arctar" -> Some("Arctan")
      [] name = "exp" -> Some("Exp")
      [] name = "floor" -> Some("Floor")
      [] name = "ceil" -> Some("Ceil")
      [] OTHER -> None

(* pairs.next().expect(..): the child at position i, if there is one *)
has_child(children, i) == i <= Len(children)

RECURSIVE build_expression_ast(_, _, _)
RECURSIVE parse_vec_of_expressions(_, _, _)
RECURSIVE primary(_, _)
RECURSIVE climb_rec(_, _, _)
RECURSIVE climb_rhs(_, _, _, _, _)

(* the map over the pairs, each built with its own span; exprs is what is   *)
(* collected so far                                                          *)
parse_vec_of_expressions(table, pairs_, exprs) ==
    IF pairs_ = <<>> THEN Built(table, exprs)
    ELSE LET expr == build_expression_ast(table, Head(pairs_).inner, Head(pairs_).span)
         IN  IF expr.ok
             THEN parse_vec_of_expressions(expr.symbols, Tail(pairs_),
                                           Append(exprs, expr.val))
             ELSE Panicked(table)

parse_stream_instance(table, instance) ==
    IF ~has_child(instance.inner, 1) THEN Panicked(table)
    ELSE LET stream_ident == parse_ident(table, instance.inner[1])
             args == parse_vec_of_expressions(stream_ident.symbols,
                                              Tail(instance.inner), <<>>)
         IN  IF stream_ident.ok /\ args.ok
             THEN Built(args.symbols,
                        [StreamInstance(args.val)
                            EXCEPT !.stream_identifier = stream_ident.val])
             ELSE Panicked(table)

(* lookup_with_offset without the match on the aggregation: the window is None *)
lookup_without_window(table, stream_instance, children, span) ==
    LET second_child == children[2]
    IN  IF ~stream_instance.ok THEN Panicked(table)
        ELSE CASE second_child.rule = "Expr" ->
               LET offset == build_expression_ast(stream_instance.symbols,
                                                  second_child.inner, second_child.span)
               IN  IF offset.ok
                   THEN Built(offset.symbols,
                              Lookup(stream_instance.val, DiscreteOffset(offset.val),
                                     None, span))
                   ELSE Panicked(table)
          [] second_child.rule = "Duration" ->
               IF ~has_child(second_child.inner, 2) THEN Panicked(table)
               ELSE LET duration_children == second_child.inner
                        time_interval ==
                            build_expression_ast(stream_instance.symbols,
                                                 duration_children[1].inner,
                                                 duration_children[1].span)
                        unit == TimeUnit(duration_children[2].str)
                    IN  IF time_interval.ok /\ unit.some
                        THEN Built(time_interval.symbols,
                                   Lookup(stream_instance.val,
                                          RealTimeOffset(time_interval.val, unit.val),
                                          None, span))
                        ELSE Panicked(table)
          [] OTHER -> Panicked(table)

(* the match on the second child of a lookup: an Expr is a discrete offset, *)
(* a Duration a real-time offset, which an aggregation may follow            *)
lookup_with_offset(table, stream_instance, children, span) ==
    LET second_child == children[2]
    IN  IF ~stream_instance.ok THEN Panicked(table)
        ELSE CASE second_child.rule = "Expr" ->
               LET offset == build_expression_ast(stream_instance.symbols,
                                                  second_child.inner, second_child.span)
               IN  IF offset.ok
                   THEN Built(offset.symbols,
                              Lookup(stream_instance.val, DiscreteOffset(offset.val),
                                     None, span))
                   ELSE Panicked(table)
          [] second_child.rule = "Duration" ->
               IF ~has_child(second_child.inner, 2) THEN Panicked(table)
               ELSE LET duration_children == second_child.inner
                        time_interval ==
                            build_expression_ast(stream_instance.symbols,
                                                 duration_children[1].inner,
                                                 duration_children[1].span)
                        unit == TimeUnit(duration_children[2].str)
                        aggregation ==
                            IF has_child(children, 3) THEN Some(children[3].rule)
                            ELSE None
                    IN  IF /\ time_interval.ok
                           /\ unit.some
                           /\ aggregation.some => aggregation.val \in WindowOperations
                        THEN Built(time_interval.symbols,
                                   Lookup(stream_instance.val,
                                          RealTimeOffset(time_interval.val, unit.val),
                                          aggregation, span))
                        ELSE Panicked(table)
          [] OTHER -> Panicked(table)

parse_lookup_expression(table, pair, span) ==
    IF ~has_child(pair.inner, 2) THEN Panicked(table)
    ELSE lookup_with_offset(table, parse_stream_instance(table, pair.inner[1]),
                            pair.inner, span)

build_function_expression(table, pair, span) ==
    IF ~has_child(pair.inner, 1) THEN Panicked(table)
    ELSE LET function_kind == FunctionKind(pair.inner[1].str)
             args == parse_vec_of_expressions(table, Tail(pair.inner), <<>>)
         IN  IF function_kind.some /\ args.ok
             THEN Built(args.symbols, Function(function_kind.val, args.val, span))
             ELSE Panicked(table)

(* the map closure of build_expression_ast: from a Pair to an Expression *)
primary(table, pair) ==
    LET span == pair.span
    IN  CASE pair.rule = "Literal" ->
               LET l == parse_literal(table, pair)
               IN  IF l.ok
                   THEN Built(table, [kind |-> "Lit", lit |-> l.val, span |-> span])
                   ELSE Panicked(table)
          [] pair.rule = "Ident" ->
               LET i == parse_ident(table, pair)
               IN  Built(i.symbols, [kind |-> "Ident", ident |-> i.val, span |-> span])
          [] pair.rule = "ParenthesizedExpression" ->
               IF ~has_child(pair.inner, 3) THEN Panicked(table)
               ELSE LET opp == pair.inner[1]
                        opening_parenthesis ==
                            IF opp.rule = "OpeningParenthesis"
                            THEN Some(Parenthesis(opp.span)) ELSE None
                        inner_expression == pair.inner[2]
                        closing == pair.inner[3]
                        closing_parenthesis ==
                            IF closing.rule = "ClosingParenthesis"
                            THEN Some(Parenthesis(closing.span)) ELSE None
                        nested == build_expression_ast(table, inner_expression.inner,
                                                       inner_expression.span)
                    IN  IF nested.ok
                        THEN Built(nested.symbols,
                                   ParenthesizedExpression(opening_parenthesis, nested.val,
                                                           closing_parenthesis, span))
                        ELSE Panicked(table)
          [] pair.rule = "DefaultExpr" ->
               IF ~has_child(pair.inner, 2) THEN Panicked(table)
               ELSE LET lookup == parse_lookup_expression(table, pair.inner[1],
                                                          pair.inner[1].span)
                        default == build_expression_ast(lookup.symbols, pair.inner[2].inner,
                                                        pair.inner[2].span)
                    IN  IF lookup.ok /\ default.ok
                        THEN Built(default.symbols, Default(lookup.val, default.val, span))
                        ELSE Panicked(table)
          [] pair.rule = "LookupExpr" -> parse_lookup_expression(table, pair, span)
          [] pair.rule = "UnaryExpr" ->
               IF ~has_child(pair.inner, 2) THEN Panicked(table)
               ELSE LET pest_operator == pair.inner[1]
                        operand == build_expression_ast(table, pair.inner[2].inner,
                                                        pair.inner[2].span)
                    IN  IF operand.ok THEN unary_expression(pest_operator, operand, span)
                        ELSE Panicked(table)
          [] pair.rule = "TernaryExpr" ->
               LET children == parse_vec_of_expressions(table, pair.inner, <<>>)
               IN  IF children.ok /\ Len(children.val) = 3
                   THEN Built(children.symbols,
                              Ite(children.val[1], children.val[2], children.val[3], span))
                   ELSE Panicked(table)
          [] pair.rule = "Tuple" ->
               LET elements == parse_vec_of_expressions(table, pair.inner, <<>>)
               IN  IF elements.ok THEN tuple_expression(elements, span)
                   ELSE Panicked(table)
          [] pair.rule = "Expr" -> build_expression_ast(table, pair.inner, pair.span)
          [] pair.rule = "FunctionExpr" -> build_function_expression(table, pair, span)
          [] OTHER -> Panicked(table)

(* PrecClimber::climb of the pest library: a primary, then operators and    *)
(* primaries by turns.  A climb is [ok, symbols, val, rest]: an expression   *)
(* as a builder yields it and the pairs not yet consumed.                    *)
Climbed(built, rest) ==
    [ok |-> built.ok, symbols |-> built.symbols, val |-> built.val, rest |-> rest]

(* whether the operator that follows binds the right operand first *)
binds_tighter(next_rule, op_rule) ==
    \/ prec(next_rule) > prec(op_rule)
    \/ assoc(next_rule) = "Right" /\ prec(next_rule) = prec(op_rule)

(* the inner loop: the right operand takes every operator that binds        *)
(* tighter, then lhs and rhs are reduced with infix and the outer loop goes  *)
(* on                                                                        *)
climb_rhs(lhs, op, rhs, min_prec, span) ==
    IF ~rhs.ok THEN rhs
    ELSE IF /\ rhs.rest # <<>>
            /\ is_operator(rhs.rest[1].rule)
            /\ binds_tighter(rhs.rest[1].rule, op.rule)
         THEN climb_rhs(lhs, op, climb_rec(rhs, prec(rhs.rest[1].rule), span),
                        min_prec, span)
         ELSE climb_rec(Climbed(Built(rhs.symbols, infix(lhs.val, op, rhs.val, span)),
                                rhs.rest),
                        min_prec, span)

(* the outer loop: the operators of at least min_prec, each with its right  *)
(* operand                                                                   *)
climb_rec(lhs, min_prec, span) ==
    IF ~lhs.ok \/ lhs.rest = <<>> \/ ~is_operator(lhs.rest[1].rule) THEN lhs
    ELSE IF prec(lhs.rest[1].rule) < min_prec THEN lhs
    ELSE IF ~has_child(lhs.rest, 2) THEN Climbed(Panicked(lhs.symbols), <<>>)
    ELSE climb_rhs(lhs, lhs.rest[1],
                   Climbed(primary(lhs.symbols, lhs.rest[2]),
                           SubSeq(lhs.rest, 3, Len(lhs.rest))),
                   min_prec, span)

(* the pairs left when the climb ends (rest) are not looked at again *)
climb(table, pairs_, span) ==
    IF pairs_ = <<>> THEN Panicked(table)
    ELSE climb_rec(Climbed(primary(table, Head(pairs_)), Tail(pairs_)), 0, span)

build_expression_ast(table, pairs_, span) == climb(table, pairs_, span)

parse_constant(table, pair) ==
    IF pair.rule # "ConstantStream" \/ ~has_child(pair.inner, 3) THEN Panicked(table)
    ELSE LET name == parse_ident(table, pair.inner[1])
             ty == parse_type(name.symbols, pair.inner[2])
             literal == parse_literal(ty.symbols, pair.inner[3])
         IN  IF name.ok /\ ty.ok /\ literal.ok
             THEN Built(literal.symbols,
                        [name |-> Some(name.val), ty |-> Some(ty.val),
                         literal |-> Some(literal.val), span |-> pair.span])
             ELSE Panicked(table)

(* the while loop of parse_inputs: an identifier, then a type, per input *)
RECURSIVE parse_inputs_loop(_, _, _)
parse_inputs_loop(table, children, inputs) ==
    IF children = <<>> THEN Built(table, inputs)
    ELSE LET name == parse_ident(table, children[1])
         IN  IF ~name.ok \/ ~has_child(children, 2) THEN Panicked(table)
             ELSE LET ty == parse_type(name.symbols, children[2])
                  IN  IF ~ty.ok THEN Panicked(table)
                      ELSE parse_inputs_loop(
                               ty.symbols, SubSeq(children, 3, Len(children)),
                               Append(inputs,
                                      [name |-> Some(name.val), ty |-> Some(ty.val),
                                       span |-> <<children[1].span[1],
                                                  children[2].span[2]>>]))

(* parse_inputs collecting the inputs in reverse *)
parse_inputs_reversed(table, pair) ==
    IF pair.rule # "InputStream" THEN Panicked(table)
    ELSE LET inputs == parse_inputs_loop(table, pair.inner, <<>>)
         IN  IF inputs.ok /\ inputs.val # <<>>
             THEN [inputs EXCEPT !.val = [i \in DOMAIN inputs.val |->
                                            inputs.val[Len(inputs.val) + 1 - i]]]
             ELSE Panicked(table)

parse_inputs(table, pair) ==
    IF pair.rule # "InputStream" THEN Panicked(table)
    ELSE LET inputs == parse_inputs_loop(table, pair.inner, <<>>)
         IN  IF inputs.ok /\ inputs.val # <<>> THEN inputs ELSE Panicked(table)

parse_output(table, pair) ==
    IF pair.rule # "OutputStream" \/ ~has_child(pair.inner, 3) THEN Panicked(table)
    ELSE LET name == parse_ident(table, pair.inner[1])
             ty == parse_type(name.symbols, pair.inner[2])
             expression == build_expression_ast(ty.symbols, pair.inner[3].inner,
                                                pair.inner[3].span)
         IN  IF name.ok /\ ty.ok /\ expression.ok
             THEN Built(expression.symbols,
                        [name |-> Some(name.val), ty |-> Some(ty.val),
                         expression |-> expression.val, span |-> pair.span])
             ELSE Panicked(table)

parse_trigger(table, pair) ==
    IF pair.rule # "Trigger" \/ ~has_child(pair.inner, 1) THEN Panicked(table)
    ELSE LET named == pair.inner[1].rule = "Ident"
             name == IF named THEN parse_ident(table, pair.inner[1])
                     ELSE Built(table, <<>>)
             rest == IF named THEN Tail(pair.inner) ELSE pair.inner
         IN  IF ~has_child(rest, 1) THEN Panicked(table)
             ELSE LET expression == build_expression_ast(name.symbols, rest[1].inner,
                                                         rest[1].span)
                      message == IF has_child(rest, 2)
                                 THEN get_symbol_for(expression.symbols, rest[2].str)
                                 ELSE [table |-> expression.symbols, symbol |-> 0]
                  IN  IF ~expression.ok \/ (has_child(rest, 2) /\ rest[2].rule # "String")
                      THEN Panicked(table)
                      ELSE Built(message.table,
                                 [name |-> IF named THEN Some(name.val) ELSE None,
                                  expression |-> expression.val,
                                  message |-> IF has_child(rest, 2)
                                              THEN Some(message.symbol) ELSE None,
                                  span |-> pair.span])

(* LanguageSpec::from on the names of the three versions *)
LanguageSpec_from(str) ==
    CASE str = "ClassicLola" -> "Classic"
      [] str = "Lola2" -> "Lola2"
      [] OTHER -> "RTLola"

LolaSpec_new ==
    [language |-> None, constants |-> <<>>, inputs |-> <<>>, outputs |-> <<>>,
     trigger |-> <<>>]

----------------------------------------------------------------------------
(* parse: the walk over the children of the Spec pair, one child a step.    *)
(* The symbol table of the specification is <<names, strings>>.              *)
pair == Head(pairs)

ParseWalking(rule) == parse_pc = "walking" /\ pairs # <<>> /\ pair.rule = rule

(* a builder's outcome: its value goes into the specification, or parse panics *)
ParseStep(built, spec_after) ==
    IF built.ok
    THEN /\ parsed' = spec_after
         /\ names' = built.symbols.names
         /\ strings' = built.symbols.strings
         /\ pairs' = Tail(pairs)
         /\ parse_pc' = "walking"
    ELSE /\ parse_pc' = "panicked"
         /\ UNCHANGED <<parsed, names, strings, pairs>>

(* lines 45-47 *)
ParseLanguageSpec ==
    /\ UNCHANGED <<analysis_vars, last_call, first_symbol, content, builder_vars>>
    /\ ParseWalking("LanguageSpec")
    /\ parsed' = [parsed EXCEPT !.language = Some(LanguageSpec_from(pair.str))]
    /\ pairs' = Tail(pairs)
    /\ UNCHANGED <<parse_pc, names, strings>>

(* lines 48-51 *)
ParseConstantStream ==
    /\ UNCHANGED <<analysis_vars, last_call, first_symbol, content, builder_vars>>
    /\ ParseWalking("ConstantStream")
    /\ LET constant == parse_constant(symbols, pair)
       IN  ParseStep(constant,
                     [parsed EXCEPT !.constants = Append(parsed.constants, constant.val)])

(* lines 52-55 *)
ParseInputStream ==
    /\ UNCHANGED <<analysis_vars, last_call, first_symbol, content, builder_vars>>
    /\ ParseWalking("InputStream")
    /\ LET input == parse_inputs(symbols, pair)
       IN  ParseStep(input, [parsed EXCEPT !.inputs = parsed.inputs \o input.val])

(* lines 56-59 *)
ParseOutputStream ==
    /\ UNCHANGED <<analysis_vars, last_call, first_symbol, content, builder_vars>>
    /\ ParseWalking("OutputStream")
    /\ LET output == parse_output(symbols, pair)
       IN  ParseStep(output, [parsed EXCEPT !.outputs = Append(parsed.outputs, output.val)])

(* line 60: unimplemented!() *)
ParseTrigger ==
    /\ UNCHANGED <<analysis_vars, last_call, first_symbol, content, builder_vars>>
    /\ ParseWalking("Trigger")
    /\ parse_pc' = "panicked"
    /\ UNCHANGED <<parsed, names, strings, pairs>>

(* line 61 *)
ParseEOI ==
    /\ UNCHANGED <<analysis_vars, last_call, first_symbol, content, builder_vars>>
    /\ ParseWalking("EOI")
    /\ pairs' = Tail(pairs)
    /\ UNCHANGED <<parse_pc, parsed, names, strings>>

(* line 65 *)
ParseReturn ==
    /\ UNCHANGED <<analysis_vars, last_call, first_symbol, content, builder_vars>>
    /\ parse_pc = "walking"
    /\ pairs = <<>>
    /\ parse_pc' = "ok"
    /\ UNCHANGED <<parsed, names, strings, pairs>>

----------------------------------------------------------------------------
(* The Spec pairs parse is given: at most MaxDecls declarations, then EOI.  *)
IdentPair(str, start) == Pair("Ident", str, <<start, start + 1>>, <<>>)
TypePair(str, start) ==
    Pair("Type", "", <<start, start + 1>>, <<IdentPair(str, start)>>)
TupleTypePair(start) ==
    Pair("Type", "", <<start, start + 4>>,
         <<TypePair("Int", start + 1), TypePair("Bool", start + 3)>>)
LiteralPair(rule, str, start) ==
    Pair("Literal", "", <<start, start + 1>>,
         <<Pair(rule, str, <<start, start + 1>>, <<>>)>>)
ExprPair(child, start) == Pair("Expr", "", <<start, start + 1>>, <<child>>)

DeclKinds == {"language", "constant", "input", "inputs", "three_inputs", "input_params",
              "output_lit", "output_ident", "trigger", "named_trigger"}

(* the declaration of the given kind at position k of the text *)
Decl(kind, k) ==
    LET b == 20 * (k - 1)
        sp == <<b, b + 19>>
    IN  CASE kind = "language" -> Pair("LanguageSpec", "Lola2", sp, <<>>)
          [] kind = "constant" ->
                Pair("ConstantStream", "", sp,
                     <<IdentPair("five", b + 9), TypePair("Int", b + 12),
                       LiteralPair("NumberLiteral", "5", b + 16)>>)
          [] kind = "input" ->
                Pair("InputStream", "", sp, <<IdentPair("in", b + 6), TypePair("Int", b + 9)>>)
          [] kind = "inputs" ->
                Pair("InputStream", "", sp,
                     <<IdentPair("a", b + 6), TypePair("Int", b + 9),
                       IdentPair("b", b + 12), TupleTypePair(b + 14)>>)
          [] kind = "three_inputs" ->
                Pair("InputStream", "", sp,
                     <<IdentPair("a", b + 6), TypePair("Int", b + 9),
                       IdentPair("b", b + 11), TypePair("Int", b + 14),
                       IdentPair("c", b + 16), TypePair("Bool", b + 18)>>)
          [] kind = "input_params" ->
                Pair("InputStream", "", sp,
                     <<IdentPair("test", b + 6),
                       Pair("ParamList", "", <<b + 7, b + 16>>,
                            <<IdentPair("ab", b + 8), TypePair("Int8", b + 10),
                              IdentPair("c", b + 12), TypePair("Int8", b + 14)>>),
                       TypePair("Int8", b + 18)>>)
          [] kind = "output_lit" ->
                Pair("OutputStream", "", sp,
                     <<IdentPair("out", b + 7), TypePair("Bool", b + 10),
                       ExprPair(LiteralPair("True", "true", b + 14), b + 14)>>)
          [] kind = "output_ident" ->
                Pair("OutputStream", "", sp,
                     <<IdentPair("out", b + 7), TypePair("Int", b + 10),
                       ExprPair(IdentPair("in", b + 14), b + 14)>>)
          [] kind = "trigger" ->
                Pair("Trigger", "", sp,
                     <<ExprPair(LiteralPair("False", "false", b + 8), b + 8)>>)
          [] kind = "named_trigger" ->
                Pair("Trigger", "", sp,
                     <<IdentPair("test", b + 8),
                       ExprPair(LiteralPair("False", "false", b + 14), b + 14),
                       Pair("String", "some message", <<b + 16, b + 18>>, <<>>)>>)

SpecPairs ==
    UNION { { [k \in 1..(n + 1) |->
                 IF k = n + 1 THEN Pair("EOI", "", <<20 * n, 20 * n>>, <<>>)
                 ELSE Decl(kinds[k], k)] : kinds \in [1..n -> DeclKinds] }
            : n \in 0..MaxDecls }

----------------------------------------------------------------------------
(* The Expr pairs build_expression_ast is given.  A chain is identifiers    *)
(* and binary operators by turns, operand i at offset 4 * (i - 1).           *)
MaxOperands == 3
MaxElements == 2

BinaryRules == UNION {Operators[i] : i \in 1..Len(Operators)}
OperandPool == <<"a", "b", "c", "d", "e", "f">>
ExprOf(child) == Pair("Expr", "", child.span, <<child>>)
ChainPair(ops, start) ==
    LET n == Len(ops) + 1
    IN  Pair("Expr", "", <<start, start + 4 * n - 3>>,
             [k \in 1..(2 * n - 1) |->
                IF k % 2 = 1 THEN IdentPair(OperandPool[(k + 1) \div 2], start + 2 * (k - 1))
                ELSE Pair(ops[k \div 2], "", <<start + 2 * (k - 1), start + 2 * k - 1>>,
                          <<>>)])
(* an operator sign, then the operand *)
UnaryPair(op, operand, start) ==
    Pair("UnaryExpr", "", <<start, operand.span[2]>>,
         <<Pair(op, "", <<start, start + 1>>, <<>>), operand>>)
(* an expression in parentheses, either of which may be missing *)
ParenthesizedPair(opened, inner, closed, start) ==
    LET end == inner.span[2]
    IN  Pair("ParenthesizedExpression", "",
             <<start, IF closed THEN end + 1 ELSE end>>,
             << IF opened THEN Pair("OpeningParenthesis", "(", <<start, start + 1>>, <<>>)
                ELSE Pair("MissingOpeningParenthesis", "", <<start, start>>, <<>>),
                inner,
                IF closed THEN Pair("ClosingParenthesis", ")", <<end, end + 1>>, <<>>)
                ELSE Pair("MissingClosingParenthesis", "", <<end, end>>, <<>>) >>)

(* the expressions put inside a unary expression, parentheses or a tuple *)
InnerKinds == {"ident", "literal", "sum", "plus"}
InnerExpr(kind, start) ==
    CASE kind = "ident" -> ChainPair(<<>>, start)
      [] kind = "literal" -> ExprOf(LiteralPair("NumberLiteral", "5", start))
      [] kind = "sum" -> ChainPair(<<"Add">>, start)
      [] kind = "plus" -> ExprOf(UnaryPair("Add", ChainPair(<<>>, start + 1), start))
(* a tuple: element i is given the ten characters from 10 * (i - 1) + 1 *)
TuplePair(kinds, start) ==
    Pair("Tuple", "", <<start, start + 10 * Len(kinds) + 2>>,
         [i \in 1..Len(kinds) |-> InnerExpr(kinds[i], start + 10 * (i - 1) + 1)])

(* a duration: its time span, then its unit *)
UnitStrings == {"ns", "μs", "ms", "s", "min", "h", "d", "w", "a"}
DurationPair(kind, unit, start) ==
    LET time_interval == InnerExpr(kind, start)
        end == time_interval.span[2]
    IN  Pair("Duration", "", <<start, end + 1>>,
             <<time_interval, Pair("UnitOfTime", unit, <<end, end + 1>>, <<>>)>>)
(* a lookup `s[second_child]` or `s[second_child, aggregation]`; the        *)
(* aggregation "" stands for none                                            *)
LookupPair(second_child, aggregation, start) ==
    LET end == second_child.span[2]
    IN  Pair("LookupExpr", "",
             <<start, IF aggregation = "" THEN end + 1 ELSE end + 3>>,
             << Pair("StreamInstance", "", <<start, start + 1>>,
                     <<IdentPair("s", start)>>),
                second_child >>
             \o IF aggregation = "" THEN <<>>
                ELSE <<Pair(aggregation, "", <<end + 1, end + 2>>, <<>>)>>)
(* the second children of the lookups: offsets and durations *)
SecondChildren ==
    {InnerExpr(kind, 2) : kind \in InnerKinds}
    \cup {DurationPair("literal", unit, 2) : unit \in UnitStrings}
    \cup {DurationPair(kind, "s", 2) : kind \in InnerKinds}

(* a function call: its name, then its arguments, ten characters each *)
FunctionNames ==
    {"nroot", "sqrt", "π", "sin", "cos", "tan", "arcsin", "arccos", "arctan", "arctar",
     "exp", "floor", "ceil", "log"}
FunctionPair(name, kinds, start) ==
    Pair("FunctionExpr", "", <<start, start + 10 * Len(kinds) + 3>>,
         <<Pair("FunctionSymbol", name, <<start, start + 1>>, <<>>)>>
         \o [i \in 1..Len(kinds) |-> InnerExpr(kinds[i], start + 10 * (i - 1) + 2)])

UnaryRules == {"Add", "Subtract", "Neg"}
ExprPairs ==
    {ChainPair(ops, 0) : ops \in SeqsUpTo(BinaryRules, MaxOperands - 1)}
    \cup {ExprOf(UnaryPair(op, InnerExpr(kind, 1), 0)) :
            op \in UnaryRules, kind \in InnerKinds}
    \cup {ExprOf(ParenthesizedPair(opened, InnerExpr(kind, 1), closed, 0)) :
            opened \in BOOLEAN, kind \in InnerKinds, closed \in BOOLEAN}
    \cup {ExprOf(TuplePair(kinds, 0)) : kinds \in SeqsUpTo(InnerKinds, MaxElements)}
    \cup {Pair("Expr", "", <<0, 12>>,
               <<UnaryPair(op, InnerExpr("ident", 1), 0),
                 Pair(rule, "", <<3, 4>>, <<>>),
                 ParenthesizedPair(TRUE, InnerExpr("sum", 6), TRUE, 5)>>) :
            op \in UnaryRules, rule \in BinaryRules}
    \cup {ExprOf(LookupPair(second_child, aggregation, 0)) :
            second_child \in SecondChildren,
            aggregation \in WindowOperations \cup {""}}
    \cup {ExprOf(Pair("DefaultExpr", "", <<0, lookup.span[2] + 3>>,
                      <<lookup, InnerExpr("literal", lookup.span[2] + 2)>>)) :
            lookup \in {LookupPair(second_child, aggregation, 0) :
                          second_child \in {InnerExpr("literal", 2),
                                            DurationPair("literal", "s", 2)},
                          aggregation \in {"", "Sum"}}}
    \cup {ExprOf(FunctionPair(name, kinds, 0)) :
            name \in FunctionNames, kinds \in {<<"ident">>, <<"sum", "literal">>}}

(* build_expression_ast on the children of the Expr pair *)
BuildExpressionAst ==
    /\ UNCHANGED <<analysis_vars, last_call, first_symbol, parse_vars, expr_pair>>
    /\ expr_ast.pc = "new"
    /\ LET expression == build_expression_ast(symbols, expr_pair.inner, expr_pair.span)
       IN  /\ expr_ast' = [pc |-> IF expression.ok THEN "built" ELSE "panicked",
                           val |-> expression.val]
           /\ names' = expression.symbols.names
           /\ strings' = expression.symbols.strings

----------------------------------------------------------------------------
(* Initial states: LolaVersionAnalysis::new, SymbolTable::new and the state *)
(* of parse when it enters the walk (line 43).                               *)
InitAnalysis(asts) ==
    /\ ast \in asts
    /\ pc = "new"
    /\ idx = 1
    /\ result = EmptyMap
    /\ emitted_errors = 0
    /\ number_of_previous_errors = 0
    /\ errors_after_first_pass = 0
    /\ reason_against_classic_lola = None
    /\ reason_against_lola2 = None
    /\ ret = None

InitSymbols ==
    /\ names = SymbolTable_new.names
    /\ strings = SymbolTable_new.strings
    /\ last_call = [op |-> "new", string |-> "", symbol |-> 0]
    /\ first_symbol = EmptyMap

InitParse(texts) ==
    /\ content \in texts
    /\ pairs = content
    /\ parsed = LolaSpec_new
    /\ parse_pc = "walking"

InitBuilder(trees) ==
    /\ expr_pair \in trees
    /\ expr_ast = [pc |-> "new", val |-> <<>>]

(* analyse on a specification of at most MaxNodes nodes *)
Init ==
    /\ InitAnalysis(Specs(SomeExprs, MaxNodes))
    /\ InitSymbols
    /\ InitParse({<<>>})
    /\ InitBuilder({ChainPair(<<>>, 0)})

Next ==
    \/ AnalyseStart
    \/ AnalyseInput
    \/ AnalyseOutput
    \/ AnalyseTrigger
    \/ CheckErrors
    \/ RuleOutInput
    \/ RuleOutOutput
    \/ RuleOutTrigger
    \/ Decide
    \/ EmitError

Spec == Init /\ [][Next]_vars

(* analyse on a specification of one node, with no other party emitting *)
InitNode ==
    /\ InitAnalysis(OneNodeSpecs(ExprsUpTo(MaxDepth)))
    /\ InitSymbols
    /\ InitParse({<<>>})
    /\ InitBuilder({ChainPair(<<>>, 0)})

NextNode ==
    \/ AnalyseStart
    \/ AnalyseInput
    \/ AnalyseOutput
    \/ AnalyseTrigger
    \/ CheckErrors
    \/ RuleOutInput
    \/ RuleOutOutput
    \/ RuleOutTrigger
    \/ Decide

NodeSpec == InitNode /\ [][NextNode]_vars

(* a symbol table and its callers *)
InitTable ==
    /\ InitAnalysis({LolaSpec(<<>>, <<>>, <<>>)})
    /\ InitSymbols
    /\ InitParse({<<>>})
    /\ InitBuilder({ChainPair(<<>>, 0)})

NextTable ==
    \/ \E string \in Texts : GetSymbolFor(string)
    \/ \E symbol \in 0..MaxTexts : GetString(symbol)

TableSpec == InitTable /\ [][NextTable]_vars

(* parse *)
InitParser ==
    /\ InitAnalysis({LolaSpec(<<>>, <<>>, <<>>)})
    /\ InitSymbols
    /\ InitParse(SpecPairs)
    /\ InitBuilder({ChainPair(<<>>, 0)})

NextParser ==
    \/ ParseLanguageSpec
    \/ ParseConstantStream
    \/ ParseInputStream
    \/ ParseOutputStream
    \/ ParseTrigger
    \/ ParseEOI
    \/ ParseReturn

ParseSpec == InitParser /\ [][NextParser]_vars

(* build_expression_ast *)
InitExpr ==
    /\ InitAnalysis({LolaSpec(<<>>, <<>>, <<>>)})
    /\ InitSymbols
    /\ InitParse({<<>>})
    /\ InitBuilder(ExprPairs)

NextExpr == BuildExpressionAst

ExprSpec == InitExpr /\ [][NextExpr]_vars

(* the first pass with its per-node classifications in any order: a node  *)
(* not yet in the map is classified next                                   *)
ClassifyInput ==
    /\ UNCHANGED <<symbol_vars, parse_vars, builder_vars>>
    /\ \E i \in DOMAIN ast.inputs :
           /\ ~contains_key(result, ast.inputs[i].id)
           /\ result' = analyse_input(result, ast.inputs[i])
    /\ UNCHANGED <<ast, pc, idx, emitted_errors, number_of_previous_errors,
                   errors_after_first_pass, reason_against_classic_lola,
                   reason_against_lola2, ret>>

ClassifyOutput ==
    /\ UNCHANGED <<symbol_vars, parse_vars, builder_vars>>
    /\ \E i \in DOMAIN ast.outputs :
           /\ ~contains_key(result, ast.outputs[i].id)
           /\ result' = analyse_output(result, ast.outputs[i])
    /\ UNCHANGED <<ast, pc, idx, emitted_errors, number_of_previous_errors,
                   errors_after_first_pass, reason_against_classic_lola,
                   reason_against_lola2, ret>>

ClassifyTrigger ==
    /\ UNCHANGED <<symbol_vars, parse_vars, builder_vars>>
    /\ \E i \in DOMAIN ast.trigger :
           /\ ~contains_key(result, ast.trigger[i].id)
           /\ result' = analyse_trigger(result, ast.trigger[i])
    /\ UNCHANGED <<ast, pc, idx, emitted_errors, number_of_previous_errors,
                   errors_after_first_pass, reason_against_classic_lola,
                   reason_against_lola2, ret>>

NextAnyOrder ==
    \/ ClassifyInput
    \/ ClassifyOutput
    \/ ClassifyTrigger

AnyOrderSpec == Init /\ [][NextAnyOrder]_vars

----------------------------------------------------------------------------
(* What the properties below speak of. *)
Rank(version) ==
    CASE version = "Classic" -> 0
      [] version = "Lola2" -> 1
      [] version = "RTLola" -> 2

Range(seq) == {seq[i] : i \in DOMAIN seq}
Nodes == Range(ast.inputs) \cup Range(ast.outputs) \cup Range(ast.trigger)
NodeCount == Len(ast.inputs) + Len(ast.outputs) + Len(ast.trigger)

(* the first pass is over: every node has been analysed *)
FirstPassDone ==
    pc \in {"check_errors", "rule_out_inputs", "rule_out_outputs", "rule_out_triggers",
            "decide", "returned"}

(* a lookup with a real-time offset occurs in the expression, anywhere *)
RECURSIVE ContainsRealTimeLookup(_)
ContainsRealTimeLookup(e) ==
    CASE e.kind \in {"Lit", "Ident", "MissingExpression"} -> FALSE
      [] e.kind = "Default" ->
            ContainsRealTimeLookup(e.target) \/ ContainsRealTimeLookup(e.default)
      [] e.kind = "Lookup" ->
            \/ e.offset.kind = "RealTimeOffset"
            \/ ContainsRealTimeLookup(e.offset.expr)
            \/ \E i \in DOMAIN e.instance.arguments :
                   ContainsRealTimeLookup(e.instance.arguments[i])
      [] e.kind = "Binary" -> ContainsRealTimeLookup(e.left) \/ ContainsRealTimeLookup(e.right)
      [] e.kind \in {"Unary", "ParenthesizedExpression"} -> ContainsRealTimeLookup(e.nested)
      [] e.kind = "Ite" ->
            \/ ContainsRealTimeLookup(e.condition)
            \/ ContainsRealTimeLookup(e.if_case)
            \/ ContainsRealTimeLookup(e.else_case)
      [] e.kind = "Tuple" -> \E i \in DOMAIN e.elems : ContainsRealTimeLookup(e.elems[i])
      [] e.kind = "Function" ->
            \E i \in DOMAIN e.arguments : ContainsRealTimeLookup(e.arguments[i])
      [] e.kind = "Field" -> ContainsRealTimeLookup(e.expr)
      [] e.kind = "Method" ->
            \/ ContainsRealTimeLookup(e.expr)
            \/ \E i \in DOMAIN e.args : ContainsRealTimeLookup(e.args[i])

Recorded(n) == contains_key(result, n.id)

----------------------------------------------------------------------------
(* C1: when analyse returns Some(d), d is one of the three versions and is  *)
(* the greatest of the versions the result map records for the inputs,      *)
(* outputs and triggers, and Classic when there is no node.                  *)
C1_GlobalIsLeastUpperBound ==
    (pc = "returned" /\ ret.some) =>
        /\ ret.val \in LanguageSpec
        /\ \A n \in Nodes : Recorded(n) /\ Rank(result[n.id]) <= Rank(ret.val)
        /\ ret.val = "Classic" \/ \E n \in Nodes : result[n.id] = ret.val

C1_Witness ==
    /\ pc = "returned"
    /\ ret = Some("RTLola")
    /\ \E n \in Nodes : result[n.id] = "Lola2"
    /\ \E n \in Nodes : result[n.id] = "Classic"

(* C2: an output or trigger whose expression contains a lookup with a      *)
(* real-time offset, at any depth and in any position, is recorded as       *)
(* RTLola, and analyse then returns Some(RTLola).                            *)
C2_RealTimeContagion ==
    \A n \in Range(ast.outputs) \cup Range(ast.trigger) :
        ContainsRealTimeLookup(n.expression) =>
            /\ (FirstPassDone /\ Recorded(n)) => result[n.id] = "RTLola"
            /\ (pc = "returned" /\ ret.some) => ret.val = "RTLola"

(* C3: an output with a parameter is never recorded as Classic; without a  *)
(* real-time lookup in its expression it is recorded as Lola2, and analyse  *)
(* of that output alone returns Some(Lola2); an output with no parameter    *)
(* and no real-time lookup is recorded as Classic.                           *)
C3_ParameterizedOutput ==
    FirstPassDone =>
        \A o \in Range(ast.outputs) :
            /\ Recorded(o)
            /\ o.params # <<>> => result[o.id] # "Classic"
            /\ (o.params # <<>> /\ ~ContainsRealTimeLookup(o.expression)) =>
                   /\ result[o.id] = "Lola2"
                   /\ (pc = "returned" /\ NodeCount = 1) => ret = Some("Lola2")
            /\ (o.params = <<>> /\ ~ContainsRealTimeLookup(o.expression)) =>
                   result[o.id] = "Classic"

C3_Witness ==
    /\ pc = "returned"
    /\ ret = Some("Lola2")
    /\ \E o \in Range(ast.outputs) :
           /\ o.params # <<>>
           /\ o.expression.kind = "Ite"
           /\ o.expression.else_case.kind = "Lookup"
           /\ result[o.id] = "Lola2"

(* C4: an input is recorded as Classic exactly when it has no parameter,   *)
(* and as Lola2 otherwise; when some input has a parameter and every output *)
(* and trigger is recorded as Classic, analyse returns Some(Lola2).          *)
C4_InputClassification ==
    FirstPassDone =>
        /\ \A i \in Range(ast.inputs) :
               /\ Recorded(i)
               /\ result[i.id] = IF i.params = <<>> THEN "Classic" ELSE "Lola2"
        /\ ( /\ pc = "returned" /\ ret.some
             /\ \E i \in Range(ast.inputs) : i.params # <<>>
             /\ \A n \in Range(ast.outputs) \cup Range(ast.trigger) :
                    Recorded(n) /\ result[n.id] = "Classic" )
           => ret = Some("Lola2")

C4_Witness ==
    /\ pc = "returned"
    /\ ret = Some("Lola2")
    /\ \E i \in Range(ast.inputs) : i.params # <<>> /\ result[i.id] = "Lola2"
    /\ \E i \in Range(ast.inputs) : i.params = <<>> /\ result[i.id] = "Classic"
    /\ \E o \in Range(ast.outputs) : result[o.id] = "Classic"

(* C5: a trigger is recorded as RTLola when its expression contains a      *)
(* real-time lookup and as Classic when it does not, never as Lola2.         *)
C5_TriggerClassification ==
    (FirstPassDone /\ pc # "panicked") =>
        \A t \in Range(ast.trigger) :
            /\ Recorded(t)
            /\ result[t.id] =
                   IF ContainsRealTimeLookup(t.expression) THEN "RTLola" ELSE "Classic"

(* C6: parse of a text with a trigger declaration returns a specification  *)
(* that holds the triggers of the text.                                      *)
TriggerDeclarations == {k \in DOMAIN content : content[k].rule = "Trigger"}
C6_TriggerIsParsed ==
    (TriggerDeclarations # {} /\ parse_pc # "walking") =>
        /\ parse_pc = "ok"
        /\ Len(parsed.trigger) = Cardinality(TriggerDeclarations)

(* C7: analyse returns None exactly when the count of emitted errors read  *)
(* after the first pass differs from the count read before it, and Some of  *)
(* one of the three versions otherwise; it does not panic.                   *)
C7_NoneIffErrorsEmitted ==
    /\ pc # "panicked"
    /\ pc = "returned" =>
           /\ ret = None <=> errors_after_first_pass # number_of_previous_errors
           /\ ret # None => ret.val \in LanguageSpec

C7_Witness ==
    /\ pc = "returned"
    /\ ret = None
    /\ number_of_previous_errors = 0
    /\ errors_after_first_pass = 1
    /\ NodeCount >= 2

(* C8: after analyse has returned, Some or None, the result map has an     *)
(* entry for every input, output and trigger, each one version, and no       *)
(* other entry; the second pass finds every key it looks up.                 *)
C8_ResultCoversEveryNode ==
    /\ pc # "panicked"
    /\ pc = "returned" =>
           /\ \A n \in Nodes : Recorded(n) /\ result[n.id] \in LanguageSpec
           /\ Cardinality(DOMAIN result) = NodeCount

C8_Witness ==
    /\ pc = "returned"
    /\ ret = None
    /\ Len(ast.inputs) >= 1 /\ Len(ast.outputs) >= 1 /\ Len(ast.trigger) >= 1
    /\ Cardinality(DOMAIN result) = 3

(* C9: interning a text again returns the Symbol it got the first time,    *)
(* and get_string of the Symbol get_symbol_for returns for a text is that    *)
(* text, in every table a sequence of calls leads to.                        *)
C9_InternIdempotentRoundTrip ==
    /\ last_call.op = "get_symbol_for" =>
           last_call.symbol = first_symbol[last_call.string]
    /\ \A s \in Texts :
           LET got == get_symbol_for(symbols, s)
           IN  /\ get_string(got.table, got.symbol) = s
               /\ contains_key(first_symbol, s) => got.symbol = first_symbol[s]

C9_Witness ==
    /\ last_call.op = "get_symbol_for"
    /\ Len(strings) >= 3
    /\ last_call.string = strings[1]
    /\ last_call.symbol = 0

(* C10: names and strings are inverse to each other and of equal size:     *)
(* names[strings[i]] = Symbol(i), strings[names[s]] = s, and no two texts    *)
(* have the same Symbol.                                                     *)
C10_NamesAndStringsInverse ==
    /\ Cardinality(DOMAIN names) = Len(strings)
    /\ \A i \in DOMAIN strings :
           contains_key(names, strings[i]) /\ names[strings[i]] = i - 1
    /\ \A s \in DOMAIN names : get_string(symbols, names[s]) = s
    /\ \A s, t \in DOMAIN names : s # t => names[s] # names[t]

C10_Witness ==
    /\ Len(strings) >= 3
    /\ Cardinality(DOMAIN names) >= 3
    /\ last_call.op = "get_string"
    /\ last_call.string = strings[3]

(* What the properties of the expression builder speak of. *)
tokens == expr_pair.inner
IsChain ==
    \A k \in DOMAIN tokens :
        IF k % 2 = 1 THEN tokens[k].rule = "Ident" ELSE tokens[k].rule \in BinaryRules
LeafAt(e, token) == e.kind = "Ident" /\ e.span = token.span
(* the operand node build_expression_ast makes of an Expr pair alone *)
BuiltAlone(inner) == build_expression_ast(SymbolTable_new, inner.inner, inner.span)

RECURSIVE SubExpressions(_)
SubExpressions(e) ==
    {e} \cup
    UNION { SubExpressions(c) :
              c \in CASE e.kind = "Binary" -> {e.left, e.right}
                      [] e.kind \in {"Unary", "ParenthesizedExpression"} -> {e.nested}
                      [] e.kind = "Tuple" -> Range(e.elems)
                      [] e.kind = "Ite" -> {e.condition, e.if_case, e.else_case}
                      [] e.kind = "Default" -> {e.target, e.default}
                      [] e.kind = "Lookup" -> {e.offset.expr} \cup Range(e.instance.arguments)
                      [] e.kind = "Function" -> Range(e.arguments)
                      [] OTHER -> {} }

(* the first and the last character of the text a node of a chain stands for *)
RECURSIVE SourceStart(_)
SourceStart(e) == IF e.kind = "Binary" THEN SourceStart(e.left) ELSE e.span[1]
RECURSIVE SourceEnd(_)
SourceEnd(e) == IF e.kind = "Binary" THEN SourceEnd(e.right) ELSE e.span[2]

(* the levels of the operators as the specification lists them *)
PrecedenceLevel(rule) ==
    CASE rule = "Or" -> 1
      [] rule = "And" -> 2
      [] rule \in {"Equal", "NotEqual"} -> 3
      [] rule \in {"LessThan", "LessThanOrEqual", "MoreThan", "MoreThanOrEqual"} -> 4
      [] rule \in {"Add", "Subtract"} -> 5
      [] rule \in {"Multiply", "Divide", "Mod"} -> 6
      [] rule = "Power" -> 7

(* C11: precedence is or < and < equality < relational < additive <        *)
(* multiplicative < power: of `a op1 b op2 c` the builder makes              *)
(* Binary(op1, a, Binary(op2, b, c)) when op2 is on the strictly higher      *)
(* level and Binary(op2, Binary(op1, a, b), c) when op1 is; `a || b && c`    *)
(* becomes Or(a, And(b, c)).                                                 *)
C11_PrecedenceResolved ==
    (expr_ast.pc # "new" /\ IsChain /\ Len(tokens) = 5) =>
        LET e == expr_ast.val
            op1 == tokens[2].rule
            op2 == tokens[4].rule
        IN  /\ expr_ast.pc = "built"
            /\ e.kind = "Binary"
            /\ PrecedenceLevel(op2) > PrecedenceLevel(op1) =>
                   /\ e.op = BinOp(op1)
                   /\ LeafAt(e.left, tokens[1])
                   /\ e.right.kind = "Binary"
                   /\ e.right.op = BinOp(op2)
                   /\ LeafAt(e.right.left, tokens[3])
                   /\ LeafAt(e.right.right, tokens[5])
            /\ PrecedenceLevel(op1) > PrecedenceLevel(op2) =>
                   /\ e.op = BinOp(op2)
                   /\ e.left.kind = "Binary"
                   /\ e.left.op = BinOp(op1)
                   /\ LeafAt(e.left.left, tokens[1])
                   /\ LeafAt(e.left.right, tokens[3])
                   /\ LeafAt(e.right, tokens[5])
            /\ (op1 = "Or" /\ op2 = "And") =>
                   e.op = "Or" /\ e.right.kind = "Binary" /\ e.right.op = "And"

C11_Witness ==
    /\ expr_ast.pc = "built"
    /\ IsChain /\ Len(tokens) = 5
    /\ tokens[2].rule = "Or" /\ tokens[4].rule = "And"
    /\ expr_ast.val.op = "Or"
    /\ expr_ast.val.right.kind = "Binary"
    /\ expr_ast.val.right.op = "And"
    /\ LeafAt(expr_ast.val.right.right, tokens[5])

(* C12: every node the builder makes has the span of the text it was built *)
(* from: a Binary node of a chain reaches from the start of its left operand *)
(* to the end of its right operand, a parenthesized expression from its      *)
(* opening to its closing parenthesis.                                       *)
C12_SpansAreSourceRanges ==
    expr_ast.pc = "built" =>
        \A n \in SubExpressions(expr_ast.val) :
            /\ (IsChain /\ n.kind = "Binary") => n.span = <<SourceStart(n), SourceEnd(n)>>
            /\ (n.kind = "ParenthesizedExpression" /\ n.opening.some /\ n.closing.some) =>
                   n.span = <<n.opening.val.span[1], n.closing.val.span[2]>>

(* C13: a unary expression with a leading plus is built as the node of its *)
(* operand alone, kind, children and span; a leading minus as Unary(Neg,     *)
(* operand) and a negation as Unary(Not, operand), with the span of the      *)
(* unary expression.                                                         *)
C13_UnaryPlusIsElided ==
    (expr_ast.pc # "new" /\ tokens[1].rule = "UnaryExpr") =>
        LET pest_operator == tokens[1].inner[1].rule
            operand == BuiltAlone(tokens[1].inner[2]).val
            built == IF Len(tokens) = 1 THEN expr_ast.val ELSE expr_ast.val.left
        IN  /\ expr_ast.pc = "built"
            /\ pest_operator = "Add" => built = operand
            /\ pest_operator = "Subtract" => built = Unary("Neg", operand, tokens[1].span)
            /\ pest_operator = "Neg" => built = Unary("Not", operand, tokens[1].span)

C13_Witness ==
    /\ expr_ast.pc = "built"
    /\ Len(tokens) = 1
    /\ tokens[1].rule = "UnaryExpr"
    /\ tokens[1].inner[1].rule = "Add"
    /\ expr_ast.val.kind = "Binary"
    /\ expr_ast.val.span = <<1, 6>>

(* C14: no Tuple node of exactly one element is ever built: an expression  *)
(* in parentheses becomes a ParenthesizedExpression, a tuple of two or more  *)
(* elements a Tuple of those elements in order, and a tuple of exactly one   *)
(* element aborts the build.                                                 *)
C14_NoTupleOfOne ==
    LET first == tokens[1]
    IN  /\ expr_ast.pc = "built" =>
               \A n \in SubExpressions(expr_ast.val) :
                   n.kind = "Tuple" => Len(n.elems) # 1
        /\ (expr_ast.pc # "new" /\ first.rule = "ParenthesizedExpression") =>
               /\ expr_ast.pc = "built"
               /\ expr_ast.val.kind = "ParenthesizedExpression"
               /\ expr_ast.val.nested = BuiltAlone(first.inner[2]).val
        /\ (expr_ast.pc # "new" /\ first.rule = "Tuple" /\ Len(first.inner) >= 2) =>
               /\ expr_ast.pc = "built"
               /\ expr_ast.val.kind = "Tuple"
               /\ Len(expr_ast.val.elems) = Len(first.inner)
               /\ \A i \in DOMAIN first.inner :
                      expr_ast.val.elems[i] = BuiltAlone(first.inner[i]).val
        /\ (expr_ast.pc # "new" /\ first.rule = "Tuple" /\ Len(first.inner) = 1) =>
               expr_ast.pc = "panicked"

C14_Witness ==
    /\ expr_ast.pc = "panicked"
    /\ tokens[1].rule = "Tuple"
    /\ Len(tokens[1].inner) = 1

(* What the properties of the input builder speak of: the children that   *)
(* are identifiers and types by turns, and the declarations parse has        *)
(* walked over.                                                              *)
IdentTypePairs(children) ==
    /\ Len(children) >= 2
    /\ Len(children) % 2 = 0
    /\ \A k \in DOMAIN children :
           children[k].rule = (IF k % 2 = 1 THEN "Ident" ELSE "Type")
walked == SubSeq(content, 1, Len(content) - Len(pairs))
RECURSIVE InputsOf(_)
InputsOf(clauses) ==
    IF clauses = <<>> THEN <<>>
    ELSE IF Head(clauses).rule = "InputStream"
         THEN parse_inputs(symbols, Head(clauses)).val \o InputsOf(Tail(clauses))
         ELSE InputsOf(Tail(clauses))

C16_ParameterizedInputIsBuilt ==
    /\ \A k \in DOMAIN content :
           content[k].rule = "InputStream" => parse_inputs(symbols, content[k]).ok
    /\ parse_pc = "panicked" => pair.rule # "InputStream"

(* What the properties of the second pass speak of: the nodes in the order *)
(* the pass walks them, and the span a reason about a node carries.          *)
InOrder == ast.inputs \o ast.outputs \o ast.trigger
ReasonSpan(i) ==
    IF i <= Len(ast.inputs) + Len(ast.outputs) THEN InOrder[i].name.span
    ELSE IF InOrder[i].name.some THEN InOrder[i].name.val.span
    ELSE InOrder[i].span
Least(S) == CHOOSE i \in S : \A j \in S : i <= j
BelongsToFirst(reason, S) ==
    IF S = {} THEN reason = None
    ELSE reason.some /\ reason.val.span = ReasonSpan(Least(S))
NotClassic == {i \in DOMAIN InOrder : result[InOrder[i].id] # "Classic"}
RealTime == {i \in DOMAIN InOrder : i > Len(ast.inputs) /\ result[InOrder[i].id] = "RTLola"}
ReasonsOfFirst ==
    /\ BelongsToFirst(reason_against_classic_lola, NotClassic)
    /\ BelongsToFirst(reason_against_lola2, RealTime)

(* C17: in the second pass each of the two reasons is set at most once and *)
(* never changed afterwards; after the walk over inputs, outputs and         *)
(* triggers the reason against Classic is that of the first node that is     *)
(* not Classic and the reason against Lola2 that of the first output or      *)
(* trigger that is RTLola.                                                   *)
C17_FirstReasonWins ==
    [][ /\ reason_against_classic_lola.some =>
               reason_against_classic_lola' = reason_against_classic_lola
        /\ reason_against_lola2.some => reason_against_lola2' = reason_against_lola2
        /\ pc' = "decide" => ReasonsOfFirst' ]_vars

C17_Witness ==
    /\ pc = "decide"
    /\ Len(ast.inputs) = 1 /\ Len(ast.outputs) = 1 /\ Len(ast.trigger) = 1
    /\ result[1] = "Lola2" /\ result[2] = "RTLola" /\ result[3] = "RTLola"
    /\ reason_against_classic_lola = Some(WhyNot(NameSpan(1), "Parameterized input stream", <<>>))
    /\ reason_against_lola2.some
    /\ reason_against_lola2.val.span = NameSpan(2)

(* C18: the classifier emits no error itself: a step that changes the      *)
(* count of emitted errors is not a step of analyse, and when the count at   *)
(* the return of analyse is the count it started with, analyse returns Some  *)
(* version, never None.                                                      *)
C18_ClassifierEmitsNoError ==
    [][ /\ emitted_errors' # emitted_errors =>
               UNCHANGED <<pc, idx, result, number_of_previous_errors,
                           errors_after_first_pass, reason_against_classic_lola,
                           reason_against_lola2, ret>>
        /\ (pc # "returned" /\ pc' = "returned"
              /\ emitted_errors' = number_of_previous_errors') =>
               ret'.some /\ ret'.val \in LanguageSpec ]_vars

C18_Witness ==
    /\ pc = "returned"
    /\ number_of_previous_errors = 1
    /\ emitted_errors = 1
    /\ ret.some
    /\ NodeCount >= 2

(* C19: node ids being pairwise distinct, the entry of an input that the   *)
(* second pass reads is Classic or Lola2: the unreachable!() of              *)
(* rule_out_versions_based_on_inputs is never executed.                      *)
C19_InputEntriesClassicOrLola2 ==
    /\ pc # "panicked"
    /\ pc = "rule_out_inputs" =>
           /\ contains_key(result, node.id)
           /\ result[node.id] \in {"Classic", "Lola2"}
    /\ FirstPassDone =>
           \A i \in DOMAIN ast.inputs : result[ast.inputs[i].id] \in {"Classic", "Lola2"}

C19_Witness ==
    /\ pc = "rule_out_inputs"
    /\ idx = 2
    /\ result[ast.inputs[1].id] = "Lola2"
    /\ result[node.id] = "Classic"
    /\ Len(ast.outputs) = 1
    /\ result[ast.outputs[1].id] = "RTLola"

(* the map of the first pass in the order of the code: inputs, outputs,    *)
(* triggers, each in declaration order                                       *)
RECURSIVE ClassifiedInOrder(_, _)
ClassifiedInOrder(res, i) ==
    IF i > Len(InOrder) THEN res
    ELSE ClassifiedInOrder(
             IF i <= Len(ast.inputs) THEN analyse_input(res, InOrder[i])
             ELSE IF i <= Len(ast.inputs) + Len(ast.outputs)
                  THEN analyse_output(res, InOrder[i])
                  ELSE analyse_trigger(res, InOrder[i]),
             i + 1)
(* the version of node i when it is classified with nothing else in the map *)
ClassifiedAlone(i) ==
    LET n == InOrder[i]
    IN  (IF i <= Len(ast.inputs) THEN analyse_input(EmptyMap, n)
         ELSE IF i <= Len(ast.inputs) + Len(ast.outputs) THEN analyse_output(EmptyMap, n)
         ELSE analyse_trigger(EmptyMap, n))[n.id]

(* C20: node ids being pairwise distinct, in whatever order the nodes are  *)
(* classified the map of the first pass is the same as in the order of the   *)
(* code, and the version of a node is what the node alone gives, whatever    *)
(* else is in the map.                                                       *)
C20_OrderIndependent ==
    /\ \A i \in DOMAIN InOrder :
           contains_key(result, InOrder[i].id) => result[InOrder[i].id] = ClassifiedAlone(i)
    /\ Cardinality(DOMAIN result) = NodeCount => result = ClassifiedInOrder(EmptyMap, 1)

C20_Witness ==
    /\ NodeCount = 3
    /\ Len(ast.inputs) = 1 /\ Len(ast.outputs) = 1
    /\ DOMAIN result = {ast.trigger[1].id, ast.outputs[1].id}
    /\ result[ast.trigger[1].id] = "RTLola"
    /\ result[ast.outputs[1].id] = "Classic"

(* C21: Symbols are given out in sequence and the table only grows: a text *)
(* not seen before gets Symbol(k), k the number of distinct texts interned   *)
(* so far, and adds exactly one entry; a known text changes nothing; no      *)
(* call removes an entry or changes the text an earlier Symbol resolves to.  *)
C21_SequentialAppendOnly ==
    [][ /\ SubSeq(strings', 1, Len(strings)) = strings
        /\ \A s \in DOMAIN names : contains_key(names', s) /\ names'[s] = names[s]
        /\ \A s \in DOMAIN first_symbol :
               get_string([names |-> names', strings |-> strings'], first_symbol[s]) = s
        /\ last_call'.op = "get_string" => UNCHANGED <<names, strings>>
        /\ last_call'.op = "get_symbol_for" =>
               IF contains_key(first_symbol, last_call'.string)
               THEN UNCHANGED <<names, strings>>
               ELSE /\ last_call'.symbol = Symbol(Cardinality(DOMAIN first_symbol))
                    /\ strings' = Append(strings, last_call'.string)
                    /\ Cardinality(DOMAIN names') = Cardinality(DOMAIN names) + 1 ]_vars

C21_Witness ==
    /\ last_call.op = "get_symbol_for"
    /\ last_call.symbol = 2
    /\ Len(strings) = 3
    /\ strings[3] = last_call.string
    /\ Cardinality(DOMAIN first_symbol) = 3

(* the leaves of a tree of Binary nodes, left to right *)
RECURSIVE InOrderLeaves(_)
InOrderLeaves(e) ==
    IF e.kind = "Binary" THEN InOrderLeaves(e.left) \o InOrderLeaves(e.right) ELSE <<e>>

(* C22: binary operators associate to the left on every level but power,   *)
(* which associates to the right: for op1, op2 of one level other than       *)
(* power `a op1 b op2 c` becomes Binary(op2, Binary(op1, a, b), c), and      *)
(* `a ^ b ^ c` becomes Pow(a, Pow(b, c)); the leaves of the built tree read  *)
(* left to right are the operands in source order.                           *)
C22_Associativity ==
    (expr_ast.pc # "new" /\ IsChain) =>
        LET e == expr_ast.val
            leaves == InOrderLeaves(e)
        IN  /\ expr_ast.pc = "built"
            /\ Len(leaves) = (Len(tokens) + 1) \div 2
            /\ \A i \in DOMAIN leaves : LeafAt(leaves[i], tokens[2 * i - 1])
            /\ Len(tokens) = 5 =>
                   LET op1 == tokens[2].rule
                       op2 == tokens[4].rule
                   IN  /\ (PrecedenceLevel(op1) = PrecedenceLevel(op2) /\ op1 # "Power") =>
                              /\ e.kind = "Binary" /\ e.op = BinOp(op2)
                              /\ e.left.kind = "Binary" /\ e.left.op = BinOp(op1)
                              /\ LeafAt(e.left.left, tokens[1])
                              /\ LeafAt(e.left.right, tokens[3])
                              /\ LeafAt(e.right, tokens[5])
                       /\ (op1 = "Power" /\ op2 = "Power") =>
                              /\ e.kind = "Binary" /\ e.op = "Pow"
                              /\ LeafAt(e.left, tokens[1])
                              /\ e.right.kind = "Binary" /\ e.right.op = "Pow"
                              /\ LeafAt(e.right.left, tokens[3])
                              /\ LeafAt(e.right.right, tokens[5])

C22_Witness ==
    /\ expr_ast.pc = "built"
    /\ IsChain /\ Len(tokens) = 5
    /\ tokens[2].rule = "Power" /\ tokens[4].rule = "Power"
    /\ expr_ast.val.op = "Pow"
    /\ expr_ast.val.right.kind = "Binary"
    /\ expr_ast.val.right.op = "Pow"
    /\ LeafAt(expr_ast.val.left, tokens[1])

(* the node build_expression_ast makes of an Expr pair whose texts are interned *)
BuiltLater(inner) == build_expression_ast(symbols, inner.inner, inner.span)
(* the LookupExpr pair the Expr pair holds alone or as the target of a default *)
IsLookup ==
    /\ Len(tokens) = 1
    /\ \/ tokens[1].rule = "LookupExpr"
       \/ tokens[1].rule = "DefaultExpr" /\ tokens[1].inner[1].rule = "LookupExpr"
lookup_pair == IF tokens[1].rule = "LookupExpr" THEN tokens[1] ELSE tokens[1].inner[1]
lookup_built == IF tokens[1].rule = "LookupExpr" THEN expr_ast.val ELSE expr_ast.val.target

(* C23: a Lookup node that carries a WindowOperation has a RealTime offset: *)
(* a lookup whose offset child is a plain expression is built with a         *)
(* Discrete offset and no window operation; a lookup whose offset child is a *)
(* duration is built with a RealTime offset, and with a window operation     *)
(* exactly when an aggregation token follows.                                *)
C23_WindowsAreRealTime ==
    /\ expr_ast.pc = "built" =>
           \A e \in SubExpressions(expr_ast.val) :
               (e.kind = "Lookup" /\ e.window.some) => e.offset.kind = "RealTimeOffset"
    /\ (expr_ast.pc # "new" /\ IsLookup) =>
           LET second_child == lookup_pair.inner[2]
               e == lookup_built
           IN  /\ expr_ast.pc = "built"
               /\ e.kind = "Lookup"
               /\ second_child.rule = "Expr" =>
                      /\ e.offset.kind = "DiscreteOffset"
                      /\ e.offset.expr = BuiltLater(second_child).val
                      /\ e.window = None
               /\ second_child.rule = "Duration" =>
                      /\ e.offset.kind = "RealTimeOffset"
                      /\ e.offset.expr = BuiltLater(second_child.inner[1]).val
                      /\ e.window.some <=> has_child(lookup_pair.inner, 3)
                      /\ has_child(lookup_pair.inner, 3) =>
                             e.window = Some(lookup_pair.inner[3].rule)

C23_Witness ==
    /\ expr_ast.pc = "built"
    /\ IsLookup
    /\ lookup_pair.inner[2].rule = "Duration"
    /\ has_child(lookup_pair.inner, 3)
    /\ lookup_built.offset.kind = "RealTimeOffset"
    /\ lookup_built.offset.unit = "Minute"
    /\ lookup_built.window = Some("Integral")

(* the functions the language supports, by their conventional names *)
ConventionalKind ==
    [nroot |-> "NthRoot", sqrt |-> "Sqrt", sin |-> "Sin", cos |-> "Cos", tan |-> "Tan",
     arcsin |-> "Arcsin", arccos |-> "Arccos", arctan |-> "Arctan", exp |-> "Exp",
     floor |-> "Floor", ceil |-> "Ceil"] @@ ("π" :> "Projection")
IsFunctionCall == Len(tokens) = 1 /\ tokens[1].rule = "FunctionExpr"

(* C24: the table of function names is total on the supported functions and *)
(* injective: a call of a supported function by its conventional name builds *)
(* a Function node of that function's own kind, `arctan` one of kind Arctan, *)
(* and only a name outside the supported set aborts the build.               *)
C24_FunctionTableTotal ==
    (expr_ast.pc # "new" /\ IsFunctionCall) =>
        LET name == tokens[1].inner[1].str
        IN  IF name \in DOMAIN ConventionalKind
            THEN /\ expr_ast.pc = "built"
                 /\ expr_ast.val.kind = "Function"
                 /\ expr_ast.val.fkind = ConventionalKind[name]
                 /\ Len(expr_ast.val.arguments) = Len(tokens[1].inner) - 1
            ELSE expr_ast.pc = "panicked"

(* the version tracker at the end of the walk of an output or a trigger *)
TrackerOf(n) ==
    IF n \in Range(ast.outputs)
    THEN analyse_expression(
             VersionTracker_from_stream(
                 IF n.params = <<>> THEN None
                 ELSE Some(WhyNot(n.name.span, "Parameterized stream", <<>>))),
             n.expression, FALSE)
    ELSE analyse_expression(VersionTracker_new, n.expression, TRUE)

(* C25: at the end of the walk of each node and after each node of the     *)
(* second pass, a reason against Lola2 comes with a reason against Classic:  *)
(* the Lola2 slot is never set while the Classic slot is empty, so neither   *)
(* a node nor the specification is given Classic or Lola2 once it is         *)
(* disqualified from Lola2.                                                  *)
C25_Lola2ReasonImpliesClassicReason ==
    /\ reason_against_lola2.some => reason_against_classic_lola.some
    /\ (pc = "returned" /\ ret.some /\ reason_against_lola2.some) => ret.val = "RTLola"
    /\ \A n \in Range(ast.outputs) \cup Range(ast.trigger) :
           LET version_tracker == TrackerOf(n)
           IN  /\ version_tracker.cannot_be_lola2.some =>
                      version_tracker.cannot_be_classic.some
               /\ (Recorded(n) /\ version_tracker.cannot_be_lola2.some) =>
                      result[n.id] = "RTLola"

C25_Witness ==
    /\ pc = "returned"
    /\ ret = Some("RTLola")
    /\ reason_against_lola2.some
    /\ reason_against_classic_lola.some
    /\ reason_against_classic_lola.val.span # reason_against_lola2.val.span
    /\ \E n \in Range(ast.outputs) \cup Range(ast.trigger) :
           /\ TrackerOf(n).cannot_be_lola2.some
           /\ result[n.id] = "RTLola"

====
